---- MODULE Spec2Model ----
(***************************************************************************)
(* Model of the script compiler of CreatureGathererTools: the lexer        *)
(* (processor/lexer.rs), the recursive-descent parser with its symbol      *)
(* tables (processor/script_parser.rs), the bytecode encoder               *)
(* (processor/ast.rs) and the chunk assembler (processor/blob.rs).         *)
(*                                                                         *)
(* Representation.  A source text is a sequence of one-character strings.  *)
(* A Rust Option / Result value is a record with a tag field k             *)
(* ("None" | "Ok" | "Err" | "Panic"); "Panic" stands for a failed unwrap() *)
(* or an out-of-range index, which aborts the process.  An error string    *)
(* built by format! is a record holding the fixed text and the arguments.  *)
(* A Vec is a sequence (Vec index i is sequence position i + 1); a HashMap *)
(* is a function whose DOMAIN is the key set.                              *)
(***************************************************************************)
EXTENDS Integers, Sequences, FiniteSets, TLC

VARIABLES
    scripts,      \* input: ScriptLayer.objects, the ordered script entries
    loc_tags,     \* input: LocationTags, name -> (tile x, tile y)
    pc,           \* position of the run: see Init and Next
    si,           \* parse_scripts: number of scripts of the list already handled
    chunks,       \* parse_scripts: Vec<Vec<Script>>
    controller,   \* parse_scripts: the Controller threaded through the scripts
    parsed,       \* result of parse_scripts
    processed,    \* result of assemble_scripts
    ret,          \* value returned by the last call (Controller, Lexer,
                  \* Parser and encoder runs)
    cur_lexer,    \* the Lexer of a Lexer run
    cur_parser,   \* the Parser of a Parser run
    cur_cmd       \* the Cmd of an encoder run

vars == <<scripts, loc_tags, pc, si, chunks, controller, parsed, processed, ret,
          cur_lexer, cur_parser, cur_cmd>>

(***************************************************************************)
(* Integer widths and build constants                                      *)
(***************************************************************************)
U16 == 65536

MAP_W == 256
MAP_H == 256
CHUNK_W == 8
CHUNK_H == 4
CHUNK_COLS == MAP_W \div CHUNK_W
CHUNK_ROWS == MAP_H \div CHUNK_H
TOTAL_CHUNKS == CHUNK_COLS * CHUNK_ROWS

\* `let v = e; body`: body with v standing for the value of e
Let(v, F(_)) == F(v)

\* Rust integer division truncates toward zero (TLA+ \div rounds down).
TruncDiv(a, b) == IF a >= 0 THEN a \div b ELSE -((-a) \div b)

(***************************************************************************)
(* Characters                                                              *)
(***************************************************************************)
DigitChars == <<"0", "1", "2", "3", "4", "5", "6", "7", "8", "9">>
Digits == {DigitChars[i] : i \in 1..10}
Letters == {"a", "b", "c", "d", "e", "f", "g", "h", "i", "j", "k", "l", "m",
            "n", "o", "p", "q", "r", "s", "t", "u", "v", "w", "x", "y", "z",
            "A", "B", "C", "D", "E", "F", "G", "H", "I", "J", "K", "L", "M",
            "N", "O", "P", "Q", "R", "S", "T", "U", "V", "W", "X", "Y", "Z"}
IsAsciiDigit(c) == c \in Digits
IsAsciiAlphabetic(c) == c \in Letters
IsAsciiAlphanumeric(c) == c \in Letters \cup Digits
DigitVal(c) == (CHOOSE i \in 1..10 : DigitChars[i] = c) - 1
NUL == "NUL"    \* the character '\0'

(***************************************************************************)
(* Lexer (processor/lexer.rs).  A Lexer value is [chars, finished]: the    *)
(* characters not yet consumed and the finished flag.                      *)
(***************************************************************************)
Lexer_new(src) == [chars |-> src, finished |-> FALSE]

\* consume_while: append to buf the longest prefix of chars satisfying pred;
\* the predicate is given as the set of the characters it accepts
RECURSIVE consume_while(_, _, _)
consume_while(pred, buf, chars) ==
    IF chars # <<>> /\ Head(chars) \in pred
    THEN consume_while(pred, Append(buf, Head(chars)), Tail(chars))
    ELSE [buf |-> buf, chars |-> chars]

IsIdentChar == {c \in Letters \cup Digits \cup {"_"} : IsAsciiAlphanumeric(c) \/ c = "_"}

read_identifier(first, chars) == consume_while(IsIdentChar, <<first>>, chars)

\* num.parse::<u32>() and the range check, on the digit string itself (the
\* values of long digit runs do not fit the model's integers): leading
\* zeros do not count; a run of at most 5 significant digits is evaluated;
\* a longer one exceeds u16::MAX, and exceeds u32::MAX (parse fails, unwrap
\* panics) when it has more than 10 significant digits or has 10 and is
\* lexicographically above "4294967295".
RECURSIVE StripZeros(_)
StripZeros(ds) ==
    IF ds # <<>> /\ Head(ds) = "0" THEN StripZeros(Tail(ds)) ELSE ds

RECURSIVE DecimalValue(_)
DecimalValue(ds) ==
    IF ds = <<>> THEN 0
    ELSE 10 * DecimalValue(SubSeq(ds, 1, Len(ds) - 1)) + DigitVal(ds[Len(ds)])

U32MaxDigits == <<"4", "2", "9", "4", "9", "6", "7", "2", "9", "5">>

RECURSIVE DigitsGreater(_, _)
DigitsGreater(a, b) ==     \* a > b for digit strings of equal length
    IF a = <<>> THEN FALSE
    ELSE IF DigitVal(Head(a)) # DigitVal(Head(b))
    THEN DigitVal(Head(a)) > DigitVal(Head(b))
    ELSE DigitsGreater(Tail(a), Tail(b))

ExceedsU32(sig) ==
    Len(sig) > 10 \/ (Len(sig) = 10 /\ DigitsGreater(sig, U32MaxDigits))

read_number(first, chars) ==
    Let(consume_while(Digits, <<first>>, chars), LAMBDA r :
    Let(StripZeros(r.buf), LAMBDA sig :
        IF ExceedsU32(sig)
        THEN [res |-> [k |-> "Panic", e |-> [msg |-> "unwrap on u32 parse error"]],
              chars |-> r.chars]
        ELSE IF Len(sig) > 5 \/ DecimalValue(sig) > U16 - 1
        THEN [res |-> [k |-> "Err",
                       e |-> [msg |-> "vaule too large for uint16", arg |-> sig]],
              chars |-> r.chars]
        ELSE [res |-> [k |-> "Ok", tok |-> [t |-> "Number", n |-> DecimalValue(sig)]],
              chars |-> r.chars]))

RECURSIVE read_text(_, _)
read_text(txt, chars) ==
    IF chars = <<>>
    THEN [res |-> [k |-> "Err", e |-> [msg |-> "no closing } found"]],
          chars |-> chars]
    ELSE IF Head(chars) = "}"
    THEN [res |-> [k |-> "Ok", tok |-> [t |-> "Text", s |-> txt]],
          chars |-> Tail(chars)]
    ELSE read_text(Append(txt, Head(chars)), Tail(chars))

IsBlank == {" ", "\t", "\r"}

\* The arm for ';' that leaves `finished` as it is
Lexer_next_semicolon_unfinished(lex, after) ==
    [item |-> [k |-> "Ok", tok |-> [t |-> "Eof"]],
     lex |-> [lex EXCEPT !.chars = after]]

\* The arm for ';' of Lexer::next, with `after` the characters behind it
Lexer_next_semicolon(lex, after) ==
    [item |-> [k |-> "Ok", tok |-> [t |-> "Eof"]],
     lex |-> [chars |-> after, finished |-> TRUE]]

\* Iterator::next for Lexer: [item, lex], item.k = "None" when the iterator
\* yields None, else the Result inside Some(..).
Lexer_next(lex) ==
    IF lex.finished THEN [item |-> [k |-> "None"], lex |-> lex]
    ELSE
    Let(consume_while(IsBlank, <<>>, lex.chars).chars, LAMBDA rest :
        IF rest = <<>>
        THEN [item |-> [k |-> "Err", e |-> [msg |-> "Missing end of script ;"]],
              lex |-> [lex EXCEPT !.chars = rest]]
        ELSE
        LET ch == Head(rest)
            after == Tail(rest)
        IN  CASE ch = "@" \/ ch = "!" ->
                   LET next_char == IF after = <<>> THEN NUL ELSE Head(after)
                       after2 == IF after = <<>> THEN after ELSE Tail(after)
                   IN  Let(read_identifier(next_char, after2), LAMBDA r :
                           [item |-> [k |-> "Ok",
                                      tok |-> [t |-> IF ch = "@" THEN "At" ELSE "Bang",
                                               s |-> r.buf]],
                            lex |-> [lex EXCEPT !.chars = r.chars]])
              [] ch = "{" ->
                   Let(read_text(<<>>, after), LAMBDA r :
                       [item |-> r.res, lex |-> [lex EXCEPT !.chars = r.chars]])
              [] ch = ";" -> Lexer_next_semicolon(lex, after)
              [] IsAsciiDigit(ch) ->
                   Let(read_number(ch, after), LAMBDA r :
                       [item |-> r.res, lex |-> [lex EXCEPT !.chars = r.chars]])
              [] IsAsciiAlphabetic(ch) \/ ch = "_" ->
                   Let(read_identifier(ch, after), LAMBDA r :
                       [item |-> [k |-> "Ok", tok |-> [t |-> "Ident", s |-> r.buf]],
                        lex |-> [lex EXCEPT !.chars = r.chars]])
              [] OTHER ->
                   [item |-> [k |-> "Err",
                              e |-> [msg |-> "Unexpected character", arg |-> ch]],
                    lex |-> [lex EXCEPT !.chars = after]])

(***************************************************************************)
(* Controller (processor/script_parser.rs): the three symbol tables        *)
(***************************************************************************)
EmptyMap == <<>>

Controller_new ==
    [tags |-> EmptyMap, flags |-> EmptyMap, text |-> EmptyMap,
     tag_count |-> 0, flag_count |-> 0, text_count |-> 0]

\* Each insert returns [v, c]: the index of the name and the Controller after
\* the call.  The counters are u16.
\* insert_tag that numbers the name again although it is already present
insert_tag_renumber(c, tag) ==
    LET c1 == [c EXCEPT !.tags = (tag :> c.tag_count) @@ c.tags,
                        !.tag_count = (c.tag_count + 1) % U16]
    IN  [v |-> c1.tags[tag], c |-> c1]

\* insert_tag that puts the name into the flag table
insert_tag_into_flags(c, tag) ==
    LET c1 == IF tag \notin DOMAIN c.flags
              THEN [c EXCEPT !.flags = c.flags @@ (tag :> c.flag_count),
                             !.flag_count = (c.flag_count + 1) % U16]
              ELSE c
    IN  [v |-> c1.flags[tag], c |-> c1]

insert_tag(c, tag) ==
    LET c1 == IF tag \notin DOMAIN c.tags
              THEN [c EXCEPT !.tags = c.tags @@ (tag :> c.tag_count),
                             !.tag_count = (c.tag_count + 1) % U16]
              ELSE c
    IN  [v |-> c1.tags[tag], c |-> c1]

\* insert_flag that advances the tag counter instead of the flag counter
insert_flag_wrong_counter(c, flag) ==
    LET c1 == IF flag \notin DOMAIN c.flags
              THEN [c EXCEPT !.flags = c.flags @@ (flag :> c.flag_count),
                             !.tag_count = (c.tag_count + 1) % U16]
              ELSE c
    IN  [v |-> c1.flags[flag], c |-> c1]

insert_flag(c, flag) ==
    LET c1 == IF flag \notin DOMAIN c.flags
              THEN [c EXCEPT !.flags = c.flags @@ (flag :> c.flag_count),
                             !.flag_count = (c.flag_count + 1) % U16]
              ELSE c
    IN  [v |-> c1.flags[flag], c |-> c1]

insert_text(c, text) ==
    LET c1 == IF text \notin DOMAIN c.text
              THEN [c EXCEPT !.text = c.text @@ (text :> c.text_count),
                             !.text_count = (c.text_count + 1) % U16]
              ELSE c
    IN  [v |-> c1.text[text], c |-> c1]

(***************************************************************************)
(* Peekable<Lexer>: the parser's one token of lookahead                    *)
(***************************************************************************)
Peekable_new(lexer) == [iter |-> lexer, peeked |-> [k |-> "Empty"]]

Peekable_peek(pk) ==
    IF pk.peeked.k = "Empty"
    THEN Let(Lexer_next(pk.iter), LAMBDA r :
             [item |-> r.item,
              lex |-> [iter |-> r.lex, peeked |-> [k |-> "Has", item |-> r.item]]])
    ELSE [item |-> pk.peeked.item, lex |-> pk]

Peekable_next(pk) ==
    IF pk.peeked.k = "Empty"
    THEN Let(Lexer_next(pk.iter), LAMBDA r :
             [item |-> r.item, lex |-> [pk EXCEPT !.iter = r.lex]])
    ELSE [item |-> pk.peeked.item, lex |-> [pk EXCEPT !.peeked = [k |-> "Empty"]]]

(***************************************************************************)
(* Parser (processor/script_parser.rs).  A Parser value is                 *)
(* [lex, controller, locations]; every method returns [res, p]: its Result *)
(* and the Parser after the call.                                          *)
(***************************************************************************)
KW_msg == <<"m", "s", "g">>
KW_tmsg == <<"t", "m", "s", "g">>
KW_tp == <<"t", "p">>
KW_if == <<"i", "f">>
KW_setflag == <<"s", "e", "t", "f", "l", "a", "g">>
KW_unsetflag == <<"u", "n", "s", "e", "t", "f", "l", "a", "g">>
KW_readflag == <<"r", "e", "a", "d", "f", "l", "a", "g">>
KW_endif == <<"e", "n", "d", "i", "f">>
FLAG_PREFIX == <<"f", "l", "a", "g", "_">>

\* str::starts_with that accepts every string
starts_with_anything(s, prefix) == Len(s) >= 0 /\ Len(prefix) >= 0

starts_with(s, prefix) ==
    Len(s) >= Len(prefix) /\ SubSeq(s, 1, Len(prefix)) = prefix

Ok(v) == [k |-> "Ok", v |-> v]
Err(e) == [k |-> "Err", e |-> e]
Panic(e) == [k |-> "Panic", e |-> e]
UnwrapNone == Panic([msg |-> "called Option::unwrap() on a None value"])

Parser_new(src, ctl, locations) ==
    [lex |-> Peekable_new(Lexer_new(src)), controller |-> ctl,
     locations |-> locations]

\* self.lex.next() with the Parser updated
Pull(p) ==
    Let(Peekable_next(p.lex), LAMBDA r :
        [item |-> r.item, p |-> [p EXCEPT !.lex = r.lex]])

\* parse_text that takes the end-of-script token for an empty text
parse_text_through_eof(p) ==
    Let(Pull(p), LAMBDA n :
        CASE n.item.k = "Panic" -> [res |-> n.item, p |-> n.p]
          [] n.item.k = "None" -> [res |-> UnwrapNone, p |-> n.p]
          [] n.item.k = "Ok" /\ n.item.tok.t = "Text" ->
               [res |-> Ok(n.item.tok.s), p |-> n.p]
          [] n.item.k = "Ok" /\ n.item.tok.t = "Eof" ->
               [res |-> Ok(<<>>), p |-> n.p]
          [] OTHER -> [res |-> Err([msg |-> "invalid token after tp"]), p |-> n.p])

parse_text(p) ==
    Let(Pull(p), LAMBDA n :
        CASE n.item.k = "Panic" -> [res |-> n.item, p |-> n.p]
          [] n.item.k = "None" -> [res |-> UnwrapNone, p |-> n.p]
          [] n.item.k = "Ok" /\ n.item.tok.t = "Text" ->
               [res |-> Ok(n.item.tok.s), p |-> n.p]
          [] OTHER -> [res |-> Err([msg |-> "invalid token after tp"]), p |-> n.p])

\* parse_location that keeps an @name as Location::Tag without looking it up
parse_location_unresolved(p) ==
    Let(Pull(p), LAMBDA n :
        CASE n.item.k = "Panic" -> [res |-> n.item, p |-> n.p]
          [] n.item.k = "None" -> [res |-> UnwrapNone, p |-> n.p]
          [] n.item.k = "Err" -> [res |-> Err(n.item.e), p |-> n.p]
          [] n.item.tok.t = "At" ->
               Let(insert_tag(n.p.controller, n.item.tok.s), LAMBDA ins :
                   LET at == n.item.tok.s
                       p1 == [n.p EXCEPT !.controller = ins.c]
                   IN  [res |-> Ok([l |-> "Tag",
                                    tag |-> [text |-> at, index |-> ins.v]]),
                        p |-> p1])
          [] n.item.tok.t = "Number" ->
               Let(Pull(n.p), LAMBDA m :
                   CASE m.item.k = "Panic" -> [res |-> m.item, p |-> m.p]
                     [] m.item.k = "None" -> [res |-> UnwrapNone, p |-> m.p]
                     [] m.item.k = "Err" ->
                          [res |-> Err([msg |-> "invalid token after tp",
                                        arg |-> m.item.e]),
                           p |-> m.p]
                     [] m.item.tok.t = "Number" ->
                          [res |-> Ok([l |-> "Cords", x |-> n.item.tok.n,
                                       y |-> m.item.tok.n]),
                           p |-> m.p]
                     [] OTHER ->
                          [res |-> Err([msg |-> "invalid token after number"]),
                           p |-> m.p])
          [] OTHER -> [res |-> Err([msg |-> "invalid token after tp"]), p |-> n.p])

\* parse_location that gives a name missing from the table the coordinate (0, 0)
parse_location_default(p) ==
    Let(Pull(p), LAMBDA n :
        CASE n.item.k = "Panic" -> [res |-> n.item, p |-> n.p]
          [] n.item.k = "None" -> [res |-> UnwrapNone, p |-> n.p]
          [] n.item.k = "Err" -> [res |-> Err(n.item.e), p |-> n.p]
          [] n.item.tok.t = "At" ->
               Let(insert_tag(n.p.controller, n.item.tok.s), LAMBDA ins :
                   LET at == n.item.tok.s
                       p1 == [n.p EXCEPT !.controller = ins.c]
                   IN  IF at \in DOMAIN p1.locations
                       THEN [res |-> Ok([l |-> "Cords", x |-> p1.locations[at][1],
                                         y |-> p1.locations[at][2]]),
                             p |-> p1]
                       ELSE [res |-> Ok([l |-> "Cords", x |-> 0, y |-> 0]), p |-> p1])
          [] n.item.tok.t = "Number" ->
               Let(Pull(n.p), LAMBDA m :
                   CASE m.item.k = "Panic" -> [res |-> m.item, p |-> m.p]
                     [] m.item.k = "None" -> [res |-> UnwrapNone, p |-> m.p]
                     [] m.item.k = "Err" ->
                          [res |-> Err([msg |-> "invalid token after tp",
                                        arg |-> m.item.e]),
                           p |-> m.p]
                     [] m.item.tok.t = "Number" ->
                          [res |-> Ok([l |-> "Cords", x |-> n.item.tok.n,
                                       y |-> m.item.tok.n]),
                           p |-> m.p]
                     [] OTHER ->
                          [res |-> Err([msg |-> "invalid token after number"]),
                           p |-> m.p])
          [] OTHER -> [res |-> Err([msg |-> "invalid token after tp"]), p |-> n.p])

parse_location(p) ==
    Let(Pull(p), LAMBDA n :
        CASE n.item.k = "Panic" -> [res |-> n.item, p |-> n.p]
          [] n.item.k = "None" -> [res |-> UnwrapNone, p |-> n.p]
          [] n.item.k = "Err" -> [res |-> Err(n.item.e), p |-> n.p]
          [] n.item.tok.t = "At" ->
               Let(insert_tag(n.p.controller, n.item.tok.s), LAMBDA ins :
                   LET at == n.item.tok.s
                       p1 == [n.p EXCEPT !.controller = ins.c]
                   IN  IF at \in DOMAIN p1.locations
                       THEN [res |-> Ok([l |-> "Cords", x |-> p1.locations[at][1],
                                         y |-> p1.locations[at][2]]),
                             p |-> p1]
                       ELSE [res |-> Err([msg |-> "location not found!", arg |-> at]),
                             p |-> p1])
          [] n.item.tok.t = "Number" ->
               Let(Pull(n.p), LAMBDA m :
                   CASE m.item.k = "Panic" -> [res |-> m.item, p |-> m.p]
                     [] m.item.k = "None" -> [res |-> UnwrapNone, p |-> m.p]
                     [] m.item.k = "Err" ->
                          [res |-> Err([msg |-> "invalid token after tp",
                                        arg |-> m.item.e]),
                           p |-> m.p]
                     [] m.item.tok.t = "Number" ->
                          [res |-> Ok([l |-> "Cords", x |-> n.item.tok.n,
                                       y |-> m.item.tok.n]),
                           p |-> m.p]
                     [] OTHER ->
                          [res |-> Err([msg |-> "invalid token after number"]),
                           p |-> m.p])
          [] OTHER -> [res |-> Err([msg |-> "invalid token after tp"]), p |-> n.p])

parse_msg(p) ==
    Let(parse_text(p), LAMBDA t :
        IF t.res.k # "Ok" THEN t
        ELSE Let(insert_text(t.p.controller, t.res.v), LAMBDA ins :
                 [res |-> Ok([op |-> "Msg",
                              text |-> [text |-> t.res.v, index |-> ins.v]]),
                  p |-> [t.p EXCEPT !.controller = ins.c]]))

parse_tmsg(p) ==
    Let(parse_location(p), LAMBDA loc :
        IF loc.res.k # "Ok" THEN loc
        ELSE
        Let(parse_text(loc.p), LAMBDA t :
            IF t.res.k # "Ok" THEN t
            ELSE Let(insert_text(t.p.controller, t.res.v), LAMBDA ins :
                     [res |-> Ok([op |-> "TMsg", at |-> loc.res.v,
                                  text |-> [text |-> t.res.v, index |-> ins.v]]),
                      p |-> [t.p EXCEPT !.controller = ins.c]])))

\* The parser names the variant TpIf; the AST and the encoder know it as Tp.
parse_tp(p) ==
    Let(parse_location(p), LAMBDA from :
        IF from.res.k # "Ok" THEN from
        ELSE
        Let(parse_location(from.p), LAMBDA to :
            IF to.res.k # "Ok" THEN to
            ELSE [res |-> Ok([op |-> "Tp", from |-> from.res.v, to |-> to.res.v]),
                  p |-> to.p]))

parse_condition(p) ==
    Let(Pull(p), LAMBDA n :
        CASE n.item.k = "Panic" -> [res |-> n.item, p |-> n.p]
          [] n.item.k = "None" -> [res |-> UnwrapNone, p |-> n.p]
          [] n.item.k = "Err" -> [res |-> Err(n.item.e), p |-> n.p]
          [] n.item.tok.t \in {"Ident", "Bang"} ->
               Let(insert_flag(n.p.controller, n.item.tok.s), LAMBDA ins :
                   [res |-> Ok([c |-> IF n.item.tok.t = "Ident"
                                      THEN "FlagSet" ELSE "FlagClear",
                                flag |-> [text |-> n.item.tok.s, index |-> ins.v]]),
                    p |-> [n.p EXCEPT !.controller = ins.c]])
          [] OTHER -> [res |-> Err([msg |-> "invalid token after if"]), p |-> n.p])

parse_flag_cmd(p, op) ==
    Let(Pull(p), LAMBDA n :
        CASE n.item.k = "Panic" -> [res |-> n.item, p |-> n.p]
          [] n.item.k = "None" ->
               [res |-> Err([msg |-> "expected flag after command"]), p |-> n.p]
          [] n.item.k = "Err" -> [res |-> Err(n.item.e), p |-> n.p]
          [] n.item.tok.t = "Ident" /\ starts_with(n.item.tok.s, FLAG_PREFIX) ->
               Let(insert_flag(n.p.controller, n.item.tok.s), LAMBDA ins :
                   [res |-> Ok([op |-> CASE op = KW_setflag -> "SetFlag"
                                         [] op = KW_unsetflag -> "UnsetFlag"
                                         [] op = KW_readflag -> "ReadFlag",
                                flag |-> [text |-> n.item.tok.s, index |-> ins.v]]),
                    p |-> [n.p EXCEPT !.controller = ins.c]])
          [] OTHER ->
               [res |-> Err([msg |-> "invalid flag token", arg |-> n.item.tok]),
                p |-> n.p])

RECURSIVE parse_cmd(_), parse_if(_), parse_branch(_)

parse_cmd(p) ==
    Let(Pull(p), LAMBDA n :
        CASE n.item.k = "Panic" -> [res |-> n.item, p |-> n.p]
          [] n.item.k = "None" ->
               [res |-> Err([msg |-> "unexpected end of script"]), p |-> n.p]
          [] n.item.k = "Err" ->
               [res |-> Err([msg |-> "parse:", arg |-> n.item.e]), p |-> n.p]
          [] n.item.tok.t = "Ident" ->
               LET ident == n.item.tok.s
               IN  CASE ident = KW_msg -> parse_msg(n.p)
                     [] ident = KW_tmsg -> parse_tmsg(n.p)
                     [] ident = KW_tp -> parse_tp(n.p)
                     [] ident = KW_if -> parse_if(n.p)
                     [] ident \in {KW_setflag, KW_unsetflag, KW_readflag} ->
                          parse_flag_cmd(n.p, ident)
                     [] OTHER ->
                          [res |-> Err([msg |-> "parse: invalid ident token",
                                        arg |-> ident]),
                           p |-> n.p]
          [] OTHER ->
               [res |-> Err([msg |-> "parse: invalid token", arg |-> n.item.tok]),
                p |-> n.p])

\* parse_branch for which `endif` is an identifier like any other
parse_branch_no_endif(p) ==
    Let(Pull(p), LAMBDA n :
        CASE n.item.k = "Panic" -> [res |-> n.item, p |-> n.p]
          [] n.item.k = "None" -> [res |-> UnwrapNone, p |-> n.p]
          [] n.item.k = "Err" -> [res |-> Err(n.item.e), p |-> n.p]
          [] n.item.tok.t = "Ident" ->
               Let(parse_cmd(n.p), LAMBDA branch :
                   IF branch.res.k # "Ok" THEN branch
                   ELSE [res |-> Ok([k |-> "Some", v |-> branch.res.v]),
                         p |-> branch.p])
          [] OTHER -> [res |-> Err([msg |-> "invalid token after if"]), p |-> n.p])

\* Result<Option<Cmd>, String>: Ok([k |-> "None"]) or Ok([k |-> "Some", v |-> cmd])
parse_branch(p) ==
    Let(Pull(p), LAMBDA n :
        CASE n.item.k = "Panic" -> [res |-> n.item, p |-> n.p]
          [] n.item.k = "None" -> [res |-> UnwrapNone, p |-> n.p]
          [] n.item.k = "Err" -> [res |-> Err(n.item.e), p |-> n.p]
          [] n.item.tok.t = "Ident" ->
               IF n.item.tok.s = KW_endif
               THEN [res |-> Ok([k |-> "None"]), p |-> n.p]
               ELSE Let(parse_cmd(n.p), LAMBDA branch :
                        IF branch.res.k # "Ok" THEN branch
                        ELSE [res |-> Ok([k |-> "Some", v |-> branch.res.v]),
                              p |-> branch.p])
          [] OTHER -> [res |-> Err([msg |-> "invalid token after if"]), p |-> n.p])

\* parse_if that returns the then/else pair without looking for `endif`
parse_if_unclosed(p) ==
    Let(parse_condition(p), LAMBDA condition :
    IF condition.res.k # "Ok" THEN condition
    ELSE
    Let(parse_branch(condition.p), LAMBDA then_branch :
    IF then_branch.res.k # "Ok" THEN then_branch
    ELSE IF then_branch.res.v.k = "None"
    THEN [res |-> Err([msg |-> "if branch must have then branch"]),
          p |-> then_branch.p]
    ELSE
    Let(parse_branch(then_branch.p), LAMBDA else_branch :
    IF else_branch.res.k # "Ok" THEN else_branch
    ELSE IF else_branch.res.v.k = "None"
    THEN [res |-> Ok([op |-> "If", condition |-> condition.res.v,
                      branches |-> [b |-> "Then",
                                    then |-> then_branch.res.v.v]]),
          p |-> else_branch.p]
    ELSE [res |-> Ok([op |-> "If", condition |-> condition.res.v,
                      branches |-> [b |-> "ThenElse",
                                    then |-> then_branch.res.v.v,
                                    else |-> else_branch.res.v.v]]),
          p |-> else_branch.p])))

parse_if(p) ==
    Let(parse_condition(p), LAMBDA condition :
    IF condition.res.k # "Ok" THEN condition
    ELSE
    Let(parse_branch(condition.p), LAMBDA then_branch :
    IF then_branch.res.k # "Ok" THEN then_branch
    ELSE IF then_branch.res.v.k = "None"
    THEN [res |-> Err([msg |-> "if branch must have then branch"]),
          p |-> then_branch.p]
    ELSE
    Let(parse_branch(then_branch.p), LAMBDA else_branch :
    IF else_branch.res.k # "Ok" THEN else_branch
    ELSE IF else_branch.res.v.k = "None"
    THEN [res |-> Ok([op |-> "If", condition |-> condition.res.v,
                      branches |-> [b |-> "Then",
                                    then |-> then_branch.res.v.v]]),
          p |-> else_branch.p]
    ELSE
    Let(Pull(else_branch.p), LAMBDA n :
        CASE n.item.k = "Panic" -> [res |-> n.item, p |-> n.p]
          [] n.item.k = "None" -> [res |-> UnwrapNone, p |-> n.p]
          [] n.item.k = "Ok" /\ n.item.tok.t = "Ident" ->
               IF n.item.tok.s = KW_endif
               THEN [res |-> Ok([op |-> "If",
                                 condition |-> condition.res.v,
                                 branches |->
                                     [b |-> "ThenElse",
                                      then |-> then_branch.res.v.v,
                                      else |-> else_branch.res.v.v]]),
                     p |-> n.p]
               ELSE [res |-> Err([msg |->
                         "invalid token after if, expected endif"]),
                     p |-> n.p]
          [] OTHER ->
               [res |-> Err([msg |-> "invalid token after tp"]),
                p |-> n.p]))))

\* Parser::parse: the while loop, with res the commands collected so far
RECURSIVE parse_loop(_, _)
parse_loop(p, res) ==
    Let(Peekable_peek(p.lex), LAMBDA pk :
        CASE pk.item.k = "Panic" ->
               [res |-> pk.item, p |-> [p EXCEPT !.lex = pk.lex]]
          [] pk.item.k = "None" ->
               [res |-> UnwrapNone, p |-> [p EXCEPT !.lex = pk.lex]]
          [] pk.item.k = "Ok" /\ pk.item.tok.t = "Eof" ->
               [res |-> Ok(res), p |-> [p EXCEPT !.lex = pk.lex]]
          [] OTHER ->
               Let(parse_cmd([p EXCEPT !.lex = pk.lex]), LAMBDA cmd :
                   IF cmd.res.k # "Ok" THEN cmd
                   ELSE parse_loop(cmd.p, Append(res, cmd.res.v))))

parse(p) == parse_loop(p, <<>>)

(***************************************************************************)
(* Bytecode encoder (processor/ast.rs)                                     *)
(***************************************************************************)
\* u16::to_be_bytes in place of to_le_bytes
to_be_bytes(v) == <<(v \div 256) % 256, v % 256>>

to_le_bytes(v) == <<v % 256, (v \div 256) % 256>>

Text_to_bytes(t) == to_le_bytes(t.index)

Location_to_bytes(loc) ==
    IF loc.l = "Cords"
    THEN <<0>> \o to_le_bytes(loc.x) \o to_le_bytes(loc.y)
    ELSE <<1>> \o Text_to_bytes(loc.tag)

Condition_to_bytes(cond) ==
    IF cond.c = "FlagSet"
    THEN <<0>> \o Text_to_bytes(cond.flag)
    ELSE <<1>> \o Text_to_bytes(cond.flag)

Opcode(cmd) ==
    CASE cmd.op = "Msg" -> 0
      [] cmd.op = "TMsg" -> 1
      [] cmd.op = "Tp" -> 2
      [] cmd.op = "If" -> 3
      [] cmd.op = "SetFlag" -> 4
      [] cmd.op = "UnsetFlag" -> 5
      [] cmd.op = "ReadFlag" -> 6
      [] cmd.op = "End" -> 7

RECURSIVE Cmd_to_bytes(_), Branch_to_bytes(_)

\* Branch::to_bytes that closes every sub-command with a 0x00 terminator
Branch_to_bytes_terminated(br) ==
    IF br.b = "ThenElse"
    THEN <<0>> \o Cmd_to_bytes(br.then) \o <<0>> \o Cmd_to_bytes(br.else) \o <<0>>
    ELSE <<1>> \o Cmd_to_bytes(br.then) \o <<0>>

\* Branch::to_bytes without the variant tag
Branch_to_bytes_untagged(br) ==
    IF br.b = "ThenElse"
    THEN Cmd_to_bytes(br.then) \o Cmd_to_bytes(br.else)
    ELSE Cmd_to_bytes(br.then)

Branch_to_bytes(br) ==
    IF br.b = "ThenElse"
    THEN <<0>> \o Cmd_to_bytes(br.then) \o Cmd_to_bytes(br.else)
    ELSE <<1>> \o Cmd_to_bytes(br.then)

Cmd_to_bytes(cmd) ==
    <<Opcode(cmd)>> \o
    CASE cmd.op = "Msg" -> Text_to_bytes(cmd.text)
      [] cmd.op = "TMsg" -> Location_to_bytes(cmd.at) \o Text_to_bytes(cmd.text)
      [] cmd.op = "Tp" -> Location_to_bytes(cmd.from) \o Location_to_bytes(cmd.to)
      [] cmd.op = "If" ->
           Condition_to_bytes(cmd.condition) \o Branch_to_bytes(cmd.branches)
      [] cmd.op \in {"SetFlag", "UnsetFlag", "ReadFlag"} -> Text_to_bytes(cmd.flag)
      [] cmd.op = "End" -> <<>>

(***************************************************************************)
(* Chunk assembler (processor/blob.rs)                                     *)
(***************************************************************************)
MAX_CHUNK_BYTES == 128

\* `for cmd in &script.body`: st = [tmp, offsets] is the state before the
\* remaining iterations (the test on its length makes it the first thing
\* computed); base_offset + tmp.len() is u16 arithmetic
RECURSIVE asm_body(_, _, _), asm_body_no_terminator(_, _, _)

\* asm_body without `tmp.push(0x00)`
asm_body_no_terminator(body, base_offset, st) ==
    IF Len(st.tmp) >= 0 /\ body = <<>> THEN st
    ELSE asm_body_no_terminator(Tail(body), base_offset,
                  [tmp |-> st.tmp \o Cmd_to_bytes(Head(body)),
                   offsets |-> Append(st.offsets,
                                      (base_offset + (Len(st.tmp) % U16)) % U16)])

asm_body(body, base_offset, st) ==
    IF Len(st.tmp) >= 0 /\ body = <<>> THEN st
    ELSE asm_body(Tail(body), base_offset,
                  [tmp |-> st.tmp \o Cmd_to_bytes(Head(body)) \o <<0>>,
                   offsets |-> Append(st.offsets,
                                      (base_offset + (Len(st.tmp) % U16)) % U16)])

\* `for script in chunk`, for the scripts at the Vec indices lo..hi in
\* increasing order; the range is split in halves, and the state before the
\* range is computed first, only to keep the evaluation depth logarithmic.
RECURSIVE asm_scripts(_, _, _, _, _)
asm_scripts(chunk, lo, hi, base_offset, st) ==
    IF Len(st.tmp) >= 0 /\ lo > hi THEN st
    ELSE IF lo = hi THEN asm_body(chunk[lo + 1].body, base_offset, st)
    ELSE LET mid == (lo + hi) \div 2
         IN  asm_scripts(chunk, mid + 1, hi, base_offset,
                         asm_scripts(chunk, lo, mid, base_offset, st))

\* One iteration of `for (chunk_idx, chunk) in chunks.iter().enumerate()`;
\* a = [k, blob, offsets] is the assembler's state before the iteration and
\* the value is its state after it, or the error it returns.  base_offset,
\* the fourth argument of asm_scripts, is blob.len() as u16.

\* asm_chunk that cuts the buffer down to the maximum instead of failing
asm_chunk_truncating(chunk_idx, chunk, a) ==
    Let(asm_scripts(chunk, 0, Len(chunk) - 1, Len(a.blob) % U16,
                    [tmp |-> <<>>, offsets |-> a.offsets]), LAMBDA st :
        IF Len(st.tmp) > MAX_CHUNK_BYTES
        THEN [k |-> "Ok", blob |-> Append(a.blob, SubSeq(st.tmp, 1, MAX_CHUNK_BYTES)),
              offsets |-> st.offsets]
        ELSE [k |-> "Ok", blob |-> Append(a.blob, st.tmp), offsets |-> st.offsets])

asm_chunk(chunk_idx, chunk, a) ==
    Let(asm_scripts(chunk, 0, Len(chunk) - 1, Len(a.blob) % U16,
                    [tmp |-> <<>>, offsets |-> a.offsets]), LAMBDA st :
        IF Len(st.tmp) > MAX_CHUNK_BYTES
        THEN Err([msg |-> "chunk too large", chunk |-> chunk_idx,
                  size |-> Len(st.tmp), max |-> MAX_CHUNK_BYTES])
        ELSE [k |-> "Ok", blob |-> Append(a.blob, st.tmp), offsets |-> st.offsets])

\* The iterations for the chunk indices lo..hi in increasing order, leaving
\* at the first error.  The range is split in halves only to keep the
\* evaluation depth logarithmic; the iterations run strictly left to right.
RECURSIVE asm_range(_, _, _, _)

\* asm_range that visits the chunks from the highest index down
asm_range_descending(chs, lo, hi, a) ==
    IF a.k # "Ok" \/ lo > hi THEN a
    ELSE IF lo = hi THEN asm_chunk(lo, chs[lo + 1], a)
    ELSE LET mid == (lo + hi) \div 2
         IN  asm_range(chs, lo, mid, asm_range(chs, mid + 1, hi, a))

asm_range(chs, lo, hi, a) ==
    IF a.k # "Ok" \/ lo > hi THEN a
    ELSE IF lo = hi THEN asm_chunk(lo, chs[lo + 1], a)
    ELSE LET mid == (lo + hi) \div 2
         IN  asm_range(chs, mid + 1, hi, asm_range(chs, lo, mid, a))

assemble_scripts(parsed_scripts) ==
    Let(asm_range(parsed_scripts.chunks, 0, Len(parsed_scripts.chunks) - 1,
                  [k |-> "Ok", blob |-> <<>>, offsets |-> <<>>]), LAMBDA a :
        IF a.k = "Ok" THEN Ok([blob |-> a.blob, offsets |-> a.offsets]) ELSE a)

(***************************************************************************)
(* parse_scripts (processor/script_parser.rs)                              *)
(***************************************************************************)
\* chunk_index with the column and the row exchanged
chunk_index_transposed(x, y) ==
    LET cx == TruncDiv(x, CHUNK_W)
        cy == TruncDiv(y, CHUNK_H)
    IN  cx * CHUNK_COLS + cy

chunk_index(x, y) ==
    LET cx == TruncDiv(x, CHUNK_W)
        cy == TruncDiv(y, CHUNK_H)
    IN  cy * CHUNK_COLS + cx

\* Vec::new() in place of vec![Vec::new(); TOTAL_CHUNKS]
new_chunks_unsized == <<>>

\* vec![Vec::new(); TOTAL_CHUNKS]
new_chunks == [i \in 1..TOTAL_CHUNKS |-> <<>>]

\* parse_script that gives every script a Controller of its own
parse_script_fresh(entry, locations, st) ==
    Let(parse(Parser_new(entry.script, Controller_new, locations)), LAMBDA parse_res :
        CASE parse_res.res.k = "Panic" -> parse_res.res
          [] parse_res.res.k = "Err" ->
               Err([msg |-> "id failed", id |-> entry.id, e |-> parse_res.res.e])
          [] OTHER ->
               LET x_i == TruncDiv(entry.x, 16)
                   y_i == TruncDiv(entry.y, 16)
                   s == [body |-> parse_res.res.v, x |-> x_i, y |-> y_i]
                   idx == chunk_index(x_i, y_i)
               IN  IF s.body = <<>>
                   THEN [k |-> "Ok", chunks |-> st.chunks,
                         controller |-> parse_res.p.controller]
                   ELSE IF idx < 0 \/ idx >= Len(st.chunks)
                   THEN Panic([msg |-> "index out of bounds", arg |-> idx])
                   ELSE [k |-> "Ok",
                         chunks |-> [st.chunks EXCEPT ![idx + 1] = Append(@, s)],
                         controller |-> parse_res.p.controller])

\* parse_scripts going on to the next script after a failed parse
parse_script_skip_failed(entry, locations, st) ==
    Let(parse_script_fresh(entry, locations, st), LAMBDA r :
        IF r.k = "Err"
        THEN [k |-> "Ok", chunks |-> st.chunks, controller |-> st.controller]
        ELSE r)

\* One iteration of `for script in &scripts.objects`, for the script entry
\* and the loop state st = [chunks, controller]: the loop state after the
\* iteration (k = "Ok"), the Err returned, or the panic of an out-of-range
\* chunks[idx].  x and y of an entry are its pixel coordinates as i32.
parse_script(entry, locations, st) ==
    Let(parse(Parser_new(entry.script, st.controller, locations)), LAMBDA parse_res :
        CASE parse_res.res.k = "Panic" -> parse_res.res
          [] parse_res.res.k = "Err" ->
               Err([msg |-> "id failed", id |-> entry.id, e |-> parse_res.res.e])
          [] OTHER ->
               LET x_i == TruncDiv(entry.x, 16)
                   y_i == TruncDiv(entry.y, 16)
                   s == [body |-> parse_res.res.v, x |-> x_i, y |-> y_i]
                   idx == chunk_index(x_i, y_i)
               IN  IF s.body = <<>>
                   THEN [k |-> "Ok", chunks |-> st.chunks,
                         controller |-> parse_res.p.controller]
                   ELSE IF idx < 0 \/ idx >= Len(st.chunks)
                   THEN Panic([msg |-> "index out of bounds", arg |-> idx])
                   ELSE [k |-> "Ok",
                         chunks |-> [st.chunks EXCEPT ![idx + 1] = Append(@, s)],
                         controller |-> parse_res.p.controller])

(***************************************************************************)
(* Inputs: script sources, pixel positions, location tables                *)
(***************************************************************************)
\* msg {a};
SRC_msg_a ==
    <<"m", "s", "g", " ", "{", "a", "}", ";">>
\* msg {x};
SRC_msg_x ==
    <<"m", "s", "g", " ", "{", "x", "}", ";">>
\* msg {b};
SRC_msg_b ==
    <<"m", "s", "g", " ", "{", "b", "}", ";">>
\* tmsg @loc1 {b};
SRC_tmsg ==
    <<"t", "m", "s", "g", " ", "@", "l", "o", "c", "1", " ", "{", "b", "}",
      ";">>
\* tp @loc2 1 2;
SRC_tp ==
    <<"t", "p", " ", "@", "l", "o", "c", "2", " ", "1", " ", "2", ";">>
\* if flag_X then setflag flag_Y else unsetflag flag_Z endif;
SRC_if ==
    <<"i", "f", " ", "f", "l", "a", "g", "_", "X", " ", "t", "h", "e", "n",
      " ", "s", "e", "t", "f", "l", "a", "g", " ", "f", "l", "a", "g", "_",
      "Y", " ", "e", "l", "s", "e", " ", "u", "n", "s", "e", "t", "f", "l",
      "a", "g", " ", "f", "l", "a", "g", "_", "Z", " ", "e", "n", "d", "i",
      "f", ";">>
\* if !flag_Z then msg {a} endif;
SRC_ifn ==
    <<"i", "f", " ", "!", "f", "l", "a", "g", "_", "Z", " ", "t", "h", "e",
      "n", " ", "m", "s", "g", " ", "{", "a", "}", " ", "e", "n", "d", "i",
      "f", ";">>
\* if !flag_Z then tp @loc2 1 2 endif;
SRC_ifn_tp ==
    <<"i", "f", " ", "!", "f", "l", "a", "g", "_", "Z", " ", "t",
              "h", "e", "n", " ", "t", "p", " ", "@", "l", "o", "c", "2",
              " ", "1", " ", "2", " ", "e", "n", "d", "i", "f", ";">>
\* msg {b} msg {a};
SRC_two ==
    <<"m", "s", "g", " ", "{", "b", "}", " ", "m", "s", "g", " ", "{", "a",
      "}", ";">>
\* ;
SRC_empty ==
    <<";">>
\* msg 42;
SRC_badtok ==
    <<"m", "s", "g", " ", "4", "2", ";">>
\* tp @nowhere 1 2;
SRC_noloc ==
    <<"t", "p", " ", "@", "n", "o", "w", "h", "e", "r", "e", " ", "1", " ",
      "2", ";">>
\* msg {a}
SRC_nosemi ==
    <<"m", "s", "g", " ", "{", "a", "}">>

\* Sources that fill a chunk with few commands: a teleport between two
\* coordinates encodes to 11 bytes, an if/else of two commands of n bytes to
\* 5 + 2n, so three nested levels give 27, 59 and 123 bytes, 124 with the
\* assembler's terminator.
SP == <<" ">>
SRC_tp_cords == <<"t", "p", " ", "1", " ", "2", " ", "3", " ", "4">>
IfElseSrc(body) ==
    <<"i", "f", " ", "f", "l", "a", "g", "_", "X", " ", "t", "h", "e", "n", " ">>
    \o body \o <<" ", "e", "l", "s", "e", " ">> \o body
    \o <<" ", "e", "n", "d", "i", "f">>
SRC_if3 == IfElseSrc(IfElseSrc(IfElseSrc(SRC_tp_cords)))
\* 124 + 4 = 128 bytes
SRC_full == SRC_if3 \o SP \o SRC_msg_a
\* 124 + 4 + 4 = 132 bytes
SRC_over == SRC_if3 \o SP \o <<"m", "s", "g", " ", "{", "a", "}", " ">> \o SRC_msg_b

Entry(id, src, x, y) == [id |-> id, script |-> src, x |-> x, y |-> y]

\* Script entries the runs draw from.  Pixel (16,16) and (32,16) are tiles
\* (1,1) and (2,1) of chunk 0; (128,0) is tile (8,0) of chunk 1; (0,64) is
\* tile (0,4) of chunk 32; (4095,4095) is tile (255,255) of chunk 2047;
\* (4096,4096), (-128,0) and (4096,0) lie outside the 256 x 256 world.
Entries ==
    {Entry(1, SRC_msg_a, 16, 16),      Entry(2, SRC_msg_b, 32, 16),
     Entry(3, SRC_two, 128, 0),        Entry(4, SRC_tmsg, 0, 64),
     Entry(5, SRC_if, 4095, 4095),     Entry(6, SRC_noloc, 128, 0),
     Entry(7, SRC_nosemi, 16, 16),     Entry(8, SRC_full, 16, 16),
     Entry(9, SRC_over, 128, 0),       Entry(10, SRC_over, 0, 64),
     Entry(11, SRC_msg_a, -128, 0),    Entry(12, SRC_empty, 4096, 4096),
     Entry(13, SRC_msg_a, 4096, 0),    Entry(14, SRC_ifn_tp, 32, 16)}

LOC1 == <<"l", "o", "c", "1">>
LOC2 == <<"l", "o", "c", "2">>
LocTables == {LOC1 :> <<1, 1>> @@ LOC2 :> <<2, 2>>}

MaxScripts == 2

\* 129 scripts of one Msg each, all in chunk 0: 129 * 4 = 516 bytes
ManyScripts == [i \in 1..129 |-> Entry(0, SRC_msg_x, 0, 0)]

ScriptLists == UNION {[1..n -> Entries] : n \in 0..MaxScripts} \cup {ManyScripts}

NoValue == [k |-> "None"]

(***************************************************************************)
(* The compilation run: processor::run calls parse_scripts, whose loop     *)
(* handles one script per step, and then assemble_scripts.                 *)
(*   pc = "parse_scripts"  inside the loop of parse_scripts                *)
(*   pc = "parsed"         parse_scripts has returned `parsed`             *)
(*   pc = "done"           assemble_scripts has returned `processed`       *)
(*   pc = "panic"          the process has aborted                         *)
(***************************************************************************)
Init ==
    /\ scripts \in ScriptLists
    /\ loc_tags \in LocTables
    /\ pc = "parse_scripts"
    /\ si = 0
    /\ chunks = new_chunks
    /\ controller = Controller_new
    /\ parsed = NoValue
    /\ processed = NoValue
    /\ ret = NoValue
    /\ cur_lexer = NoValue
    /\ cur_parser = NoValue
    /\ cur_cmd = NoValue

ParseScript ==
    /\ pc = "parse_scripts"
    /\ si < Len(scripts)
    /\ \E r \in {parse_script(scripts[si + 1], loc_tags,
                             [chunks |-> chunks, controller |-> controller])} :
           CASE r.k = "Ok" ->
                  /\ chunks' = r.chunks
                  /\ controller' = r.controller
                  /\ si' = si + 1
                  /\ UNCHANGED <<pc, parsed>>
             [] r.k = "Err" ->
                  /\ parsed' = r
                  /\ pc' = "parsed"
                  /\ UNCHANGED <<chunks, controller, si>>
             [] r.k = "Panic" ->
                  /\ parsed' = r
                  /\ pc' = "panic"
                  /\ UNCHANGED <<chunks, controller, si>>
    /\ UNCHANGED <<scripts, loc_tags, processed, ret,
                 cur_lexer, cur_parser, cur_cmd>>

ParseScriptsReturn ==
    /\ pc = "parse_scripts"
    /\ si = Len(scripts)
    /\ parsed' = Ok([chunks |-> chunks, tags |-> controller.tags,
                     flags |-> controller.flags, texts |-> controller.text])
    /\ pc' = "parsed"
    /\ UNCHANGED <<scripts, loc_tags, si, chunks, controller, processed, ret,
                 cur_lexer, cur_parser, cur_cmd>>

\* processor::run: a failed parse_scripts is turned into panic!
RunParseFailed ==
    /\ pc = "parsed"
    /\ parsed.k = "Err"
    /\ processed' = Panic([msg |-> "Error parsing scripts", arg |-> parsed.e])
    /\ pc' = "panic"
    /\ UNCHANGED <<scripts, loc_tags, si, chunks, controller, parsed, ret,
                 cur_lexer, cur_parser, cur_cmd>>

Assemble ==
    /\ pc = "parsed"
    /\ parsed.k = "Ok"
    /\ processed' = assemble_scripts(parsed.v)
    /\ pc' = "done"
    /\ UNCHANGED <<scripts, loc_tags, si, chunks, controller, parsed, ret,
                 cur_lexer, cur_parser, cur_cmd>>

Next == ParseScript \/ ParseScriptsReturn \/ RunParseFailed \/ Assemble

Spec == Init /\ [][Next]_vars

(***************************************************************************)
(* The Controller on its own: any sequence of insert calls                 *)
(***************************************************************************)
CtlNames == {<<"a">>, <<"b">>, <<"f", "l", "a", "g", "_", "X">>}

InitCtl ==
    /\ scripts = <<>>
    /\ loc_tags = EmptyMap
    /\ pc = "controller"
    /\ si = 0
    /\ chunks = <<>>
    /\ controller = Controller_new
    /\ parsed = NoValue
    /\ processed = NoValue
    /\ ret = NoValue
    /\ cur_lexer = NoValue
    /\ cur_parser = NoValue
    /\ cur_cmd = NoValue

Call(f, name, r) ==
    /\ pc = "controller"
    /\ controller' = r.c
    /\ ret' = [k |-> "Some", f |-> f, name |-> name, v |-> r.v]
    /\ UNCHANGED <<scripts, loc_tags, pc, si, chunks, parsed, processed,
                 cur_lexer, cur_parser, cur_cmd>>

CallInsertTag == \E name \in CtlNames : Call("insert_tag", name, insert_tag(controller, name))

CallInsertFlag == \E name \in CtlNames : Call("insert_flag", name, insert_flag(controller, name))

CallInsertText == \E name \in CtlNames : Call("insert_text", name, insert_text(controller, name))

NextCtl == CallInsertTag \/ CallInsertFlag \/ CallInsertText

SpecCtl == InitCtl /\ [][NextCtl]_vars

(***************************************************************************)
(* The encoder on its own: one command is encoded by Cmd::to_bytes and     *)
(* then assembled as the one-command body of a script, by the loop body of *)
(* assemble_scripts (blob.rs:28-35) from an empty buffer.                  *)
(*   pc = "encode"     the command is given                                *)
(*   pc = "encoded"    ret holds cmd.to_bytes()                            *)
(*   pc = "assembled"  processed holds the buffer and the offsets          *)
(***************************************************************************)
EncIndices == {0, 1, 255, 256, 258, 65535}

EncTexts == {[text |-> <<"a">>, index |-> i] : i \in EncIndices}

EncCords == {0, 258, 65535}

EncLocations ==
    {[l |-> "Cords", x |-> x, y |-> y] : x \in EncCords, y \in EncCords}
    \cup {[l |-> "Tag", tag |-> t] : t \in EncTexts}

EncFlagCmds ==
    {[op |-> o, flag |-> t] : o \in {"SetFlag", "UnsetFlag", "ReadFlag"}, t \in EncTexts}

\* Commands without sub-commands
EncLeaves ==
    {[op |-> "Msg", text |-> t] : t \in EncTexts}
    \cup {[op |-> "TMsg", at |-> l, text |-> t] : l \in EncLocations, t \in EncTexts}
    \cup {[op |-> "Tp", from |-> l, to |-> m] : l \in EncLocations, m \in EncLocations}
    \cup EncFlagCmds
    \cup {[op |-> "End"]}

EncConditions ==
    {[c |-> c, flag |-> [text |-> <<"f">>, index |-> i]] :
        c \in {"FlagSet", "FlagClear"}, i \in {1, 258}}

\* If commands over the sub-commands S
EncIfs(S) ==
    {[op |-> "If", condition |-> c, branches |-> [b |-> "Then", then |-> t]] :
        c \in EncConditions, t \in S}
    \cup {[op |-> "If", condition |-> c,
           branches |-> [b |-> "ThenElse", then |-> t, else |-> e]] :
              c \in EncConditions, t \in S, e \in S}

EncSubs ==
    {[op |-> "Msg", text |-> [text |-> <<"a">>, index |-> 258]],
     [op |-> "Tp", from |-> [l |-> "Cords", x |-> 258, y |-> 0],
                   to |-> [l |-> "Tag", tag |-> [text |-> <<"a">>, index |-> 1]]],
     [op |-> "SetFlag", flag |-> [text |-> <<"f">>, index |-> 0]],
     [op |-> "End"]}

EncNested ==
    {[op |-> "If", condition |-> [c |-> "FlagClear",
                                  flag |-> [text |-> <<"f">>, index |-> 1]],
      branches |-> [b |-> "ThenElse",
                    then |-> [op |-> "End"],
                    else |-> [op |-> "UnsetFlag",
                              flag |-> [text |-> <<"f">>, index |-> 256]]]],
     [op |-> "If", condition |-> [c |-> "FlagSet",
                                  flag |-> [text |-> <<"f">>, index |-> 0]],
      branches |-> [b |-> "Then",
                    then |-> [op |-> "Msg",
                              text |-> [text |-> <<"a">>, index |-> 0]]]]}

\* Commands of nesting depth 0, 1, 2 and 3
EncCmds ==
    EncLeaves \cup EncIfs(EncSubs) \cup EncIfs(EncNested)
    \cup EncIfs(EncIfs(EncNested))

InitEnc ==
    /\ scripts = <<>>
    /\ loc_tags = EmptyMap
    /\ pc = "encode"
    /\ si = 0
    /\ chunks = <<>>
    /\ controller = Controller_new
    /\ parsed = NoValue
    /\ processed = NoValue
    /\ ret = NoValue
    /\ cur_lexer = NoValue
    /\ cur_parser = NoValue
    /\ cur_cmd \in EncCmds

CmdToBytes ==
    /\ pc = "encode"
    /\ ret' = [k |-> "Some", f |-> "to_bytes", v |-> Cmd_to_bytes(cur_cmd)]
    /\ pc' = "encoded"
    /\ UNCHANGED <<scripts, loc_tags, si, chunks, controller, parsed, processed,
                   cur_lexer, cur_parser, cur_cmd>>

AssembleBody ==
    /\ pc = "encoded"
    /\ processed' = asm_body(<<cur_cmd>>, 0, [tmp |-> <<>>, offsets |-> <<>>])
    /\ pc' = "assembled"
    /\ UNCHANGED <<scripts, loc_tags, si, chunks, controller, parsed, ret,
                   cur_lexer, cur_parser, cur_cmd>>

NextEnc == CmdToBytes \/ AssembleBody

SpecEnc == InitEnc /\ [][NextEnc]_vars

(***************************************************************************)
(* The Lexer on its own: a Lexer is made for the source of one script and  *)
(* its consumer pulls items with next() for as long as it likes.           *)
(*   pc = "lex"    the Lexer can be pulled                                 *)
(*   pc = "panic"  a pull has aborted the process                          *)
(***************************************************************************)
LexAlphabet == {"a", "_", "1", "@", "!", ";", " ", "{", "}", "#"}

MaxLen == 3

ShortSources == UNION {[1..n -> LexAlphabet] : n \in 0..MaxLen}

\* Digit runs around u16::MAX = 65535 and u32::MAX = 4294967295
NumberSources ==
    {<<"6", "5", "5", "3", "5", ";">>,
     <<"6", "5", "5", "3", "6", ";">>,
     <<"0", "0", "6", "5", "5", "3", "5", ";">>,
     <<"0", "0", "0", "0", "6", "5", "5", "3", "6", ";">>,
     <<"9", "9", "9", "9", "9">>,
     <<"1", "0", "0", "0", "0", "0", ";">>,
     <<"4", "2", "9", "4", "9", "6", "7", "2", "9", "5", ";">>,
     <<"4", "2", "9", "4", "9", "6", "7", "2", "9", "6", ";">>,
     <<"9", "9", "9", "9", "9", "9", "9", "9", "9", "9", "9", ";">>,
     <<"9", "9", "9", "9", "9", "9", "9", "9", "9", "9", "9">>,
     <<"1", " ", "6", "5", "5", "3", "5", " ", "6", "5", "5", "3", "6", ";">>}

\* The sources of test_tokenisation
TestSources ==
    {<<"m", "s", "g", " ", "4", "2", " ", "4", "0", " ", "{", "H", "e", "l", "l", "o", " ", "w", "o", "r", "l", "d", "}", ";">>,
     <<"m", "s", "g", " ", "@", "l", "o", "c", "1", " ", "{", "H", "e", "l", "l", "o", " ", "w", "o", "r", "l", "d", "}", ";">>}

LexSources == ShortSources \cup NumberSources \cup TestSources

InitLex ==
    /\ scripts \in {<<Entry(0, src, 0, 0)>> : src \in LexSources}
    /\ loc_tags = EmptyMap
    /\ pc = "lex"
    /\ si = 0
    /\ chunks = <<>>
    /\ controller = Controller_new
    /\ parsed = NoValue
    /\ processed = NoValue
    /\ ret = NoValue
    /\ cur_lexer = Lexer_new(scripts[1].script)
    /\ cur_parser = NoValue
    /\ cur_cmd = NoValue

LexerNext ==
    /\ pc = "lex"
    /\ \E r \in {Lexer_next(cur_lexer)} :
           /\ ret' = [k |-> "Some", f |-> "next", v |-> r.item]
           /\ cur_lexer' = r.lex
           /\ pc' = IF r.item.k = "Panic" THEN "panic" ELSE "lex"
    /\ UNCHANGED <<scripts, loc_tags, si, chunks, controller, parsed, processed,
                   cur_parser, cur_cmd>>

NextLex == LexerNext

SpecLex == InitLex /\ [][NextLex]_vars

\* The consumer of a Lexer that can yield something new pulls again
SpecLexFair == SpecLex /\ WF_vars(LexerNext)

(***************************************************************************)
(* The Parser on its own: a Parser is made for the source of one script,   *)
(* with an empty Controller, and then either parse_cmd is called once, as  *)
(* the parser's tests do, or parse is.                                     *)
(*   pc = "parse"   the Parser is new                                      *)
(*   pc = "parsed"  the call has returned                                  *)
(*   pc = "panic"   the call has aborted the process                       *)
(***************************************************************************)
\* An if with a then-command and an else-command, up to the end of the
\* else-command
ElsePrefixes ==
    {\* if f then setflag flag_a else unsetflag flag_b
     <<"i", "f", " ", "f", " ", "t", "h", "e", "n", " ", "s", "e", "t", "f",
       "l", "a", "g", " ", "f", "l", "a", "g", "_", "a", " ", "e", "l", "s",
       "e", " ", "u", "n", "s", "e", "t", "f", "l", "a", "g", " ", "f", "l",
       "a", "g", "_", "b">>,
     \* if !f then msg {a} else if g then msg {b} endif
     <<"i", "f", " ", "!", "f", " ", "t", "h", "e", "n", " ", "m", "s", "g",
       " ", "{", "a", "}", " ", "e", "l", "s", "e", " ", "i", "f", " ", "g",
       " ", "t", "h", "e", "n", " ", "m", "s", "g", " ", "{", "b", "}", " ",
       "e", "n", "d", "i", "f">>,
     \* if f then if g then msg {a} else msg {b} endif else tp 1 2 3 4
     <<"i", "f", " ", "f", " ", "t", "h", "e", "n", " ", "i", "f", " ", "g",
       " ", "t", "h", "e", "n", " ", "m", "s", "g", " ", "{", "a", "}", " ",
       "e", "l", "s", "e", " ", "m", "s", "g", " ", "{", "b", "}", " ", "e",
       "n", "d", "i", "f", " ", "e", "l", "s", "e", " ", "t", "p", " ", "1",
       " ", "2", " ", "3", " ", "4">>}

\* An if with a then-command, up to the end of the then-command
ThenPrefixes ==
    {\* if f then setflag flag_a
     <<"i", "f", " ", "f", " ", "t", "h", "e", "n", " ", "s", "e", "t", "f",
       "l", "a", "g", " ", "f", "l", "a", "g", "_", "a">>,
     \* if !f then msg {a}
     <<"i", "f", " ", "!", "f", " ", "t", "h", "e", "n", " ", "m", "s", "g",
       " ", "{", "a", "}">>,
     \* if f then if g then setflag flag_Z endif
     <<"i", "f", " ", "f", " ", "t", "h", "e", "n", " ", "i", "f", " ", "g",
       " ", "t", "h", "e", "n", " ", "s", "e", "t", "f", "l", "a", "g", " ",
       "f", "l", "a", "g", "_", "Z", " ", "e", "n", "d", "i", "f">>}

\* What follows the last command of a prefix
Suffixes ==
    {\* (empty)
     <<>>,
     \* ;
     <<";">>,
     \*  endif;
     <<" ", "e", "n", "d", "i", "f", ";">>,
     \*  endif
     <<" ", "e", "n", "d", "i", "f">>,
     \*  endif msg {a};
     <<" ", "e", "n", "d", "i", "f", " ", "m", "s", "g", " ", "{", "a", "}",
       ";">>,
     \*  endif endif;
     <<" ", "e", "n", "d", "i", "f", " ", "e", "n", "d", "i", "f", ";">>,
     \*  foo;
     <<" ", "f", "o", "o", ";">>,
     \*  else;
     <<" ", "e", "l", "s", "e", ";">>,
     \*  {a};
     <<" ", "{", "a", "}", ";">>,
     \*  1;
     <<" ", "1", ";">>,
     \*  @x;
     <<" ", "@", "x", ";">>,
     \*  #;
     <<" ", "#", ";">>,
     \*  msg {b};
     <<" ", "m", "s", "g", " ", "{", "b", "}", ";">>,
     \*  else msg {b} endif;
     <<" ", "e", "l", "s", "e", " ", "m", "s", "g", " ", "{", "b", "}", " ",
       "e", "n", "d", "i", "f", ";">>,
     \*  99999999999;
     <<" ", "9", "9", "9", "9", "9", "9", "9", "9", "9", "9", "9", ";">>}

\* Sources with and without terminator, and the sources of test_parse_if
OtherSources ==
    {\* msg {a}
     <<"m", "s", "g", " ", "{", "a", "}">>,
     \* msg {a;}
     <<"m", "s", "g", " ", "{", "a", ";", "}">>,
     \* msg {a};
     <<"m", "s", "g", " ", "{", "a", "}", ";">>,
     \* tp 1 2
     <<"t", "p", " ", "1", " ", "2">>,
     \* ;
     <<";">>,
     \* {a
     <<"{", "a">>,
     \* 99999999999
     <<"9", "9", "9", "9", "9", "9", "9", "9", "9", "9", "9">>,
     \* tp 99999999999 1
     <<"t", "p", " ", "9", "9", "9", "9", "9", "9", "9", "9", "9", "9", "9",
       " ", "1">>,
     \* msg @;
     <<"m", "s", "g", " ", "@", ";">>,
     \* if flag_X then setflag flag_Y else unsetflag flag_Y endif;
     <<"i", "f", " ", "f", "l", "a", "g", "_", "X", " ", "t", "h", "e", "n",
       " ", "s", "e", "t", "f", "l", "a", "g", " ", "f", "l", "a", "g", "_",
       "Y", " ", "e", "l", "s", "e", " ", "u", "n", "s", "e", "t", "f", "l",
       "a", "g", " ", "f", "l", "a", "g", "_", "Y", " ", "e", "n", "d", "i",
       "f", ";">>,
     \* if flag_X then setflag flag_Y endif;
     <<"i", "f", " ", "f", "l", "a", "g", "_", "X", " ", "t", "h", "e", "n",
       " ", "s", "e", "t", "f", "l", "a", "g", " ", "f", "l", "a", "g", "_",
       "Y", " ", "e", "n", "d", "i", "f", ";">>,
     \* if flag_X then if flag_Y then setflag flag_Z endif endif;
     <<"i", "f", " ", "f", "l", "a", "g", "_", "X", " ", "t", "h", "e", "n",
       " ", "i", "f", " ", "f", "l", "a", "g", "_", "Y", " ", "t", "h", "e",
       "n", " ", "s", "e", "t", "f", "l", "a", "g", " ", "f", "l", "a", "g",
       "_", "Z", " ", "e", "n", "d", "i", "f", " ", "e", "n", "d", "i", "f",
       ";">>}

\* What can stand where tp and tmsg expect a location: two numbers, an
\* @name, or something else (one number, a text, an identifier, nothing)
LocationTexts ==
    {[src |-> <<" ", "1", " ", "2">>, k |-> "numbers", x |-> 1, y |-> 2],
     [src |-> <<" ", "2", "5", "6", " ", "2", "5", "6">>, k |-> "numbers", x |-> 256, y |-> 256],
     [src |-> <<" ", "0", " ", "0">>, k |-> "numbers", x |-> 0, y |-> 0],
     [src |-> <<" ", "6", "5", "5", "3", "5", " ", "7">>, k |-> "numbers", x |-> 65535, y |-> 7],
     [src |-> <<" ", "@", "l", "o", "c", "1">>, k |-> "ref", name |-> <<"l", "o", "c", "1">>],
     [src |-> <<" ", "@", "l", "o", "c", "2">>, k |-> "ref", name |-> <<"l", "o", "c", "2">>],
     [src |-> <<" ", "@", "n", "o", "w", "h", "e", "r", "e">>, k |-> "ref", name |-> <<"n", "o", "w", "h", "e", "r", "e">>],
     [src |-> <<" ", "@", "l", "o", "c">>, k |-> "ref", name |-> <<"l", "o", "c">>],
     [src |-> <<" ", "1">>, k |-> "bad"],
     [src |-> <<" ", "{", "a", "}">>, k |-> "bad"],
     [src |-> <<" ", "f", "o", "o">>, k |-> "bad"],
     [src |-> <<>>, k |-> "bad"]}

\* tp <location> <location>;  and  tmsg <location> {a};
LocationSources ==
    {<<"t", "p">> \o from.src \o to.src \o <<";">> :
        from \in LocationTexts, to \in LocationTexts}
    \cup {<<"t", "m", "s", "g">> \o at.src \o <<" ", "{", "a", "}", ";">> :
            at \in LocationTexts}

\* setflag, unsetflag, readflag and the command each makes
FlagOps ==
    {[src |-> <<"s", "e", "t", "f", "l", "a", "g">>, op |-> "SetFlag"],
     [src |-> <<"u", "n", "s", "e", "t", "f", "l", "a", "g">>, op |-> "UnsetFlag"],
     [src |-> <<"r", "e", "a", "d", "f", "l", "a", "g">>, op |-> "ReadFlag"]}

\* What can follow a flag keyword: an identifier with the prefix flag_, an
\* identifier without it, a number, a text, a reference, nothing, a '#'
FlagArgs ==
    {[src |-> <<" ", "f", "l", "a", "g", "_", "a">>, k |-> "flag", name |-> <<"f", "l", "a", "g", "_", "a">>],
     [src |-> <<" ", "f", "l", "a", "g", "_", "z">>, k |-> "flag", name |-> <<"f", "l", "a", "g", "_", "z">>],
     [src |-> <<" ", "f", "l", "a", "g", "_">>, k |-> "flag", name |-> <<"f", "l", "a", "g", "_">>],
     [src |-> <<" ", "f", "l", "a", "g", "_", "a", "1">>, k |-> "flag", name |-> <<"f", "l", "a", "g", "_", "a", "1">>],
     [src |-> <<" ", "f", "l", "a", "g", "x">>, k |-> "other"],
     [src |-> <<" ", "f">>, k |-> "other"],
     [src |-> <<" ", "F", "l", "a", "g", "_", "a">>, k |-> "other"],
     [src |-> <<" ", "1">>, k |-> "other"],
     [src |-> <<" ", "{", "a", "}">>, k |-> "other"],
     [src |-> <<" ", "@", "f", "l", "a", "g", "_", "a">>, k |-> "other"],
     [src |-> <<" ", "!", "f", "l", "a", "g", "_", "a">>, k |-> "other"],
     [src |-> <<>>, k |-> "other"],
     [src |-> <<" ", "#">>, k |-> "other"]}

\* What precedes the flag command: nothing, or "setflag flag_z ", after
\* which the flag table is {flag_z: 0}
FlagPrefixes ==
    {[src |-> <<>>, flags |-> <<>>, count |-> 0],
     [src |-> <<"s", "e", "t", "f", "l", "a", "g", " ", "f", "l", "a", "g",
             "_", "z", " ">>,
      flags |-> (<<"f", "l", "a", "g", "_", "z">> :> 0), count |-> 1]}

FlagSources ==
    {pre.src \o op.src \o arg.src \o <<";">> :
        pre \in FlagPrefixes, op \in FlagOps, arg \in FlagArgs}

\* Commands cut short by the ';': the end-of-script token arrives where
\* the parser expects something else
TruncatedSources ==
    {\* msg;
     <<"m", "s", "g", ";">>,
     \* tmsg;
     <<"t", "m", "s", "g", ";">>,
     \* tmsg 1;
     <<"t", "m", "s", "g", " ", "1", ";">>,
     \* tmsg 1 2;
     <<"t", "m", "s", "g", " ", "1", " ", "2", ";">>,
     \* tmsg @loc1;
     <<"t", "m", "s", "g", " ", "@", "l", "o", "c", "1", ";">>,
     \* tp;
     <<"t", "p", ";">>,
     \* tp 1;
     <<"t", "p", " ", "1", ";">>,
     \* tp 1 2;
     <<"t", "p", " ", "1", " ", "2", ";">>,
     \* tp 1 2 3;
     <<"t", "p", " ", "1", " ", "2", " ", "3", ";">>,
     \* tp @loc1;
     <<"t", "p", " ", "@", "l", "o", "c", "1", ";">>,
     \* tp @loc1 @loc2 msg;
     <<"t", "p", " ", "@", "l", "o", "c", "1", " ", "@", "l", "o",
                  "c", "2", " ", "m", "s", "g", ";">>,
     \* if;
     <<"i", "f", ";">>,
     \* if a;
     <<"i", "f", " ", "a", ";">>,
     \* if !a;
     <<"i", "f", " ", "!", "a", ";">>,
     \* if a then;
     <<"i", "f", " ", "a", " ", "t", "h", "e", "n", ";">>,
     \* if a then msg;
     <<"i", "f", " ", "a", " ", "t", "h", "e", "n", " ", "m", "s",
                  "g", ";">>,
     \* if a then msg {a};
     <<"i", "f", " ", "a", " ", "t", "h", "e", "n", " ", "m", "s",
                  "g", " ", "{", "a", "}", ";">>,
     \* if a then msg {a} else;
     <<"i", "f", " ", "a", " ", "t", "h", "e", "n", " ", "m", "s",
                  "g", " ", "{", "a", "}", " ", "e", "l", "s", "e", ";">>,
     \* if a then msg {a} else msg;
     <<"i", "f", " ", "a", " ", "t", "h", "e", "n", " ", "m", "s",
                  "g", " ", "{", "a", "}", " ", "e", "l", "s", "e", " ", "m",
                  "s", "g", ";">>,
     \* if a then msg {a} else msg {a};
     <<"i", "f", " ", "a", " ", "t", "h", "e", "n", " ", "m", "s",
                  "g", " ", "{", "a", "}", " ", "e", "l", "s", "e", " ", "m",
                  "s", "g", " ", "{", "a", "}", ";">>,
     \* setflag;
     <<"s", "e", "t", "f", "l", "a", "g", ";">>,
     \* msg {a} msg;
     <<"m", "s", "g", " ", "{", "a", "}", " ", "m", "s", "g", ";">>,
     \* msg {a} if a then if b;
     <<"m", "s", "g", " ", "{", "a", "}", " ", "i", "f", " ", "a",
                  " ", "t", "h", "e", "n", " ", "i", "f", " ", "b", ";">>}

\* Complete scripts, and the same with text behind the ';'
CompleteSources ==
    {\* ;
     <<";">>,
     \* msg {a};
     <<"m", "s", "g", " ", "{", "a", "}", ";">>,
     \* msg {a} msg {b};
     <<"m", "s", "g", " ", "{", "a", "}", " ", "m", "s", "g", " ",
                  "{", "b", "}", ";">>,
     \* if a then msg {a} endif;
     <<"i", "f", " ", "a", " ", "t", "h", "e", "n", " ", "m", "s",
                  "g", " ", "{", "a", "}", " ", "e", "n", "d", "i", "f", ";">>,
     \* tp 1 2 @loc1;
     <<"t", "p", " ", "1", " ", "2", " ", "@", "l", "o", "c", "1",
                  ";">>,
     \* msg {a}; msg {c};
     <<"m", "s", "g", " ", "{", "a", "}", ";", " ", "m", "s", "g",
                  " ", "{", "c", "}", ";">>,
     \* msg {a} msg {b}; msg {c};
     <<"m", "s", "g", " ", "{", "a", "}", " ", "m", "s", "g", " ",
                  "{", "b", "}", ";", " ", "m", "s", "g", " ", "{", "c", "}",
                  ";">>,
     \* if a then msg {a} endif; msg {c};
     <<"i", "f", " ", "a", " ", "t", "h", "e", "n", " ", "m", "s",
                  "g", " ", "{", "a", "}", " ", "e", "n", "d", "i", "f", ";",
                  " ", "m", "s", "g", " ", "{", "c", "}", ";">>,
     \* tp 1 2 @loc1; msg {c};
     <<"t", "p", " ", "1", " ", "2", " ", "@", "l", "o", "c", "1",
                  ";", " ", "m", "s", "g", " ", "{", "c", "}", ";">>}

\* An if with another identifier in the place of 'then' or of 'else'
MiskeyedSources ==
    {\* if flag_X foo setflag flag_Y endif;
     <<"i", "f", " ", "f", "l", "a", "g", "_", "X", " ", "f", "o",
                  "o", " ", "s", "e", "t", "f", "l", "a", "g", " ", "f", "l",
                  "a", "g", "_", "Y", " ", "e", "n", "d", "i", "f", ";">>,
     \* if flag_X else setflag flag_Y endif;
     <<"i", "f", " ", "f", "l", "a", "g", "_", "X", " ", "e", "l",
                  "s", "e", " ", "s", "e", "t", "f", "l", "a", "g", " ", "f",
                  "l", "a", "g", "_", "Y", " ", "e", "n", "d", "i", "f", ";">>,
     \* if flag_X then setflag flag_Y foo unsetflag flag_Z endif;
     <<"i", "f", " ", "f", "l", "a", "g", "_", "X", " ", "t", "h",
                  "e", "n", " ", "s", "e", "t", "f", "l", "a", "g", " ", "f",
                  "l", "a", "g", "_", "Y", " ", "f", "o", "o", " ", "u", "n",
                  "s", "e", "t", "f", "l", "a", "g", " ", "f", "l", "a", "g",
                  "_", "Z", " ", "e", "n", "d", "i", "f", ";">>,
     \* if flag_X then setflag flag_Y then unsetflag flag_Z endif;
     <<"i", "f", " ", "f", "l", "a", "g", "_", "X", " ", "t", "h",
                  "e", "n", " ", "s", "e", "t", "f", "l", "a", "g", " ", "f",
                  "l", "a", "g", "_", "Y", " ", "t", "h", "e", "n", " ", "u",
                  "n", "s", "e", "t", "f", "l", "a", "g", " ", "f", "l", "a",
                  "g", "_", "Z", " ", "e", "n", "d", "i", "f", ";">>}

\* The same with 'then' and 'else' in their places
KeyedSources ==
    {\* if flag_X then setflag flag_Y endif;
     <<"i", "f", " ", "f", "l", "a", "g", "_", "X", " ", "t", "h",
                  "e", "n", " ", "s", "e", "t", "f", "l", "a", "g", " ", "f",
                  "l", "a", "g", "_", "Y", " ", "e", "n", "d", "i", "f", ";">>,
     \* if flag_X then setflag flag_Y else unsetflag flag_Z endif;
     <<"i", "f", " ", "f", "l", "a", "g", "_", "X", " ", "t", "h",
                  "e", "n", " ", "s", "e", "t", "f", "l", "a", "g", " ", "f",
                  "l", "a", "g", "_", "Y", " ", "e", "l", "s", "e", " ", "u",
                  "n", "s", "e", "t", "f", "l", "a", "g", " ", "f", "l", "a",
                  "g", "_", "Z", " ", "e", "n", "d", "i", "f", ";">>}

ParseSources ==
    {pre \o suf : pre \in ElsePrefixes \cup ThenPrefixes, suf \in Suffixes}
    \cup OtherSources \cup LocationSources \cup FlagSources
    \cup TruncatedSources \cup CompleteSources
    \cup MiskeyedSources \cup KeyedSources

InitParse ==
    /\ scripts \in {<<Entry(0, src, 0, 0)>> : src \in ParseSources}
    /\ loc_tags \in LocTables
    /\ pc = "parse"
    /\ si = 0
    /\ chunks = <<>>
    /\ controller = Controller_new
    /\ parsed = NoValue
    /\ processed = NoValue
    /\ ret = NoValue
    /\ cur_lexer = NoValue
    /\ cur_parser = Parser_new(scripts[1].script, Controller_new, loc_tags)
    /\ cur_cmd = NoValue

Returned(f, r) ==
    /\ ret' = [k |-> "Some", f |-> f, v |-> r.res]
    /\ cur_parser' = r.p
    /\ pc' = IF r.res.k = "Panic" THEN "panic" ELSE "parsed"
    /\ UNCHANGED <<scripts, loc_tags, si, chunks, controller, parsed, processed,
                   cur_lexer, cur_cmd>>

ParseCmd ==
    /\ pc = "parse"
    /\ \E r \in {parse_cmd(cur_parser)} : Returned("parse_cmd", r)

Parse ==
    /\ pc = "parse"
    /\ \E r \in {parse(cur_parser)} : Returned("parse", r)

NextParse == ParseCmd \/ Parse

SpecParse == InitParse /\ [][NextParse]_vars

(***************************************************************************)
(* Properties                                                              *)
(***************************************************************************)
TableOf(c, f) ==
    CASE f = "insert_tag" -> c.tags
      [] f = "insert_flag" -> c.flags
      [] f = "insert_text" -> c.text

\* C1 (symbol stability): in every Controller call, every name already in a
\* table keeps its index; a call for a present name changes nothing and
\* returns the index the name has; a call for an absent name adds just that
\* name, with the number of entries the table had before the call as index,
\* and returns it.
C1_Step ==
    LET f == ret'.f
        name == ret'.name
        old == TableOf(controller, f)
        new == TableOf(controller', f)
    IN  /\ \A g \in {"insert_tag", "insert_flag", "insert_text"} :
               \A m \in DOMAIN TableOf(controller, g) :
                   /\ m \in DOMAIN TableOf(controller', g)
                   /\ TableOf(controller', g)[m] = TableOf(controller, g)[m]
        /\ name \in DOMAIN old => new = old /\ ret'.v = old[name]
        /\ name \notin DOMAIN old =>
               /\ DOMAIN new = DOMAIN old \cup {name}
               /\ new[name] = Cardinality(DOMAIN old)
               /\ ret'.v = new[name]

C1_SymbolStability == [][C1_Step]_vars

\* a call for a name that was already present returned its first index, 0,
\* while the table holds two names
C1_Witness ==
    /\ ret.k = "Some"
    /\ ret.f = "insert_tag"
    /\ Cardinality(DOMAIN controller.tags) = 2
    /\ controller.tag_count = 2
    /\ ret.v = 0

Dense(t, count) ==
    /\ count = Cardinality(DOMAIN t)
    /\ {t[n] : n \in DOMAIN t} = 0..(count - 1)
    /\ \A m, n \in DOMAIN t : t[m] = t[n] => m = n

TablesDense(c) ==
    /\ Dense(c.tags, c.tag_count)
    /\ Dense(c.flags, c.flag_count)
    /\ Dense(c.text, c.text_count)

C2_Independent ==
    /\ ret'.f # "insert_tag" =>
           controller'.tags = controller.tags
           /\ controller'.tag_count = controller.tag_count
    /\ ret'.f # "insert_flag" =>
           controller'.flags = controller.flags
           /\ controller'.flag_count = controller.flag_count
    /\ ret'.f # "insert_text" =>
           controller'.text = controller.text
           /\ controller'.text_count = controller.text_count

\* C2: in every state each table maps its n names one-to-one onto 0..n-1 and
\* its counter is n; a call on one table leaves the contents and the counter
\* of the other two tables as they were.
C2_DenseIndependent == [](TablesDense(controller)) /\ [][C2_Independent]_vars

\* the same name sits in all three tables under three different indices
C2_Witness ==
    /\ ret.k = "Some"
    /\ <<"a">> \in DOMAIN controller.tags
    /\ <<"a">> \in DOMAIN controller.flags
    /\ <<"a">> \in DOMAIN controller.text
    /\ controller.tags[<<"a">>] = 0
    /\ controller.flags[<<"a">>] = 1
    /\ controller.text[<<"a">>] = 2

(***************************************************************************)
(* First occurrence of names over the ordered script list                  *)
(***************************************************************************)
\* the tokens of a source up to its terminator, appended to acc; they are
\* taken twelve at a time only to keep the evaluation depth small
RECURSIVE TokensFrom(_, _, _)
TokensFrom(lex, acc, n) ==
    IF n = 0 THEN [lex |-> lex, acc |-> acc, done |-> FALSE]
    ELSE LET r == Lexer_next(lex)
         IN  IF r.item.k # "Ok" THEN [lex |-> lex, acc |-> acc, done |-> TRUE]
             ELSE IF r.item.tok.t = "Eof" THEN [lex |-> lex, acc |-> acc, done |-> TRUE]
             ELSE TokensFrom(r.lex, Append(acc, r.item.tok), n - 1)

RECURSIVE Tokens(_, _)
Tokens(lex, acc) ==
    LET r == TokensFrom(lex, acc, 12)
    IN  IF r.done THEN r.acc ELSE Tokens(r.lex, r.acc)

\* the tokens that name an entry of a table: a text literal, an @tag, and a
\* flag written as !name or as an identifier with the flag_ prefix
IsNameToken(table, tok) ==
    CASE table = "texts" -> tok.t = "Text"
      [] table = "tags" -> tok.t = "At"
      [] table = "flags" ->
           tok.t = "Bang" \/ (tok.t = "Ident" /\ starts_with(tok.s, FLAG_PREFIX))

\* the names of a table in a source, in token order
NamesIn(table, src) ==
    LET Test(tok) == IsNameToken(table, tok)
        sel == SelectSeq(Tokens(Lexer_new(src), <<>>), Test)
    IN  [j \in 1..Len(sel) |-> sel[j].s]

\* acc followed by the names of `names` it does not hold yet, in order
RECURSIVE AddNew(_, _)
AddNew(acc, names) ==
    IF names = <<>> THEN acc
    ELSE AddNew(IF \E i \in DOMAIN acc : acc[i] = Head(names)
                THEN acc ELSE Append(acc, Head(names)),
                Tail(names))

\* the names of a table in the first n scripts, each once, in the order of
\* their first occurrence: script order, then token order
RECURSIVE FirstOccurrences(_, _)
FirstOccurrences(table, n) ==
    IF n = 0 THEN <<>>
    ELSE AddNew(FirstOccurrences(table, n - 1), NamesIn(table, scripts[n].script))

\* t holds exactly the names that occur in the first n scripts, and a name
\* whose first occurrence comes earlier has the smaller index
FirstOccurrenceOrder(t, table, n) ==
    LET d == FirstOccurrences(table, n)
    IN  /\ DOMAIN t = {d[i] : i \in DOMAIN d}
        /\ \A i, j \in DOMAIN d : i < j => t[d[i]] < t[d[j]]

\* every reference inside a command carries the index its name has in c
RECURSIVE CmdRefsOk(_, _)
CmdRefsOk(cmd, c) ==
    CASE cmd.op \in {"Msg", "TMsg"} ->
           cmd.text.text \in DOMAIN c.text /\ c.text[cmd.text.text] = cmd.text.index
      [] cmd.op = "Tp" -> TRUE
      [] cmd.op = "If" ->
           /\ cmd.condition.flag.text \in DOMAIN c.flags
           /\ c.flags[cmd.condition.flag.text] = cmd.condition.flag.index
           /\ CmdRefsOk(cmd.branches.then, c)
           /\ cmd.branches.b = "ThenElse" => CmdRefsOk(cmd.branches.else, c)
      [] OTHER ->
           cmd.flag.text \in DOMAIN c.flags /\ c.flags[cmd.flag.text] = cmd.flag.index

ChunksRefsOk(chs, c) ==
    \A k \in DOMAIN chs : \A s \in DOMAIN chs[k] : \A n \in DOMAIN chs[k][s].body :
        CmdRefsOk(chs[k][s].body[n], c)

C3_State ==
    /\ pc = "parse_scripts" =>
           /\ FirstOccurrenceOrder(controller.text, "texts", si)
           /\ FirstOccurrenceOrder(controller.tags, "tags", si)
           /\ FirstOccurrenceOrder(controller.flags, "flags", si)
           /\ ChunksRefsOk(chunks, controller)
    /\ parsed.k = "Ok" =>
           /\ FirstOccurrenceOrder(parsed.v.texts, "texts", Len(scripts))
           /\ FirstOccurrenceOrder(parsed.v.tags, "tags", Len(scripts))
           /\ FirstOccurrenceOrder(parsed.v.flags, "flags", Len(scripts))
           /\ ChunksRefsOk(parsed.v.chunks,
                           [text |-> parsed.v.texts, flags |-> parsed.v.flags])

C3_Step ==
    \A g \in {"insert_tag", "insert_flag", "insert_text"} :
        \A m \in DOMAIN TableOf(controller, g) :
            /\ m \in DOMAIN TableOf(controller', g)
            /\ TableOf(controller', g)[m] = TableOf(controller, g)[m]

\* C3: while parse_scripts runs, and in what it returns, each table holds
\* exactly the names met in the scripts parsed so far, numbered in the order
\* of their first occurrence (script order, then token order), every emitted
\* command carries the table's index of the name it refers to, and parsing a
\* further script leaves the index of every name already present unchanged.
C3_FirstOccurrence == []C3_State /\ [][C3_Step]_vars

\* the first script is msg {a}; the second, msg {b} msg {a}, meets b before
\* a, yet a keeps index 0 from the first script and b gets 1
C3_Witness ==
    /\ pc = "parsed"
    /\ parsed.k = "Ok"
    /\ Len(scripts) = 2
    /\ parsed.v.texts = (<<"a">> :> 0 @@ <<"b">> :> 1)
    /\ Len(parsed.v.chunks[2]) = 1
    /\ Len(parsed.v.chunks[2][1].body) = 2
    /\ parsed.v.chunks[2][1].body[1].text = [text |-> <<"b">>, index |-> 1]
    /\ parsed.v.chunks[2][1].body[2].text = [text |-> <<"a">>, index |-> 0]

(***************************************************************************)
(* The bytes a chunk is to hold, built from the encoder alone              *)
(***************************************************************************)
\* f[lo] \o ... \o f[hi]
RECURSIVE Cat(_, _, _)
Cat(f, lo, hi) ==
    IF lo > hi THEN <<>>
    ELSE IF lo = hi THEN f[lo]
    ELSE LET mid == (lo + hi) \div 2
         IN  Cat(f, lo, mid) \o Cat(f, mid + 1, hi)

\* every command of a body, encoded and followed by one zero byte
EncodedBody(body) ==
    Cat([n \in 1..Len(body) |-> Cmd_to_bytes(body[n]) \o <<0>>], 1, Len(body))

ExpectedChunk(chunk) ==
    Cat([s \in 1..Len(chunk) |-> EncodedBody(chunk[s].body)], 1, Len(chunk))

\* the chunk indices (0-based) whose encoding is longer than the maximum
Oversized(chs) ==
    {k \in 0..(Len(chs) - 1) :
         chs[k + 1] # <<>> /\ Len(ExpectedChunk(chs[k + 1])) > MAX_CHUNK_BYTES}

\* C5: when assemble_scripts returns Ok every buffer of its output is at most
\* 128 bytes long and as long as the chunk's full encoding (nothing was cut
\* off); when the encoding of some chunk is longer than 128 bytes
\* assemble_scripts returns Err, which carries no output.
C5_SizeEnforcement ==
    pc = "done" =>
        /\ MAX_CHUNK_BYTES = 128
        /\ processed.k \in {"Ok", "Err"}
        /\ processed.k = "Ok" =>
               \A k \in DOMAIN processed.v.blob :
                   /\ Len(processed.v.blob[k]) <= MAX_CHUNK_BYTES
                   /\ Len(processed.v.blob[k]) = Len(ExpectedChunk(parsed.v.chunks[k]))
        /\ Oversized(parsed.v.chunks) # {} =>
               processed.k = "Err" /\ DOMAIN processed = {"k", "e"}

\* assembly succeeded with a chunk of exactly the maximum size, 128 bytes
C5_Witness ==
    /\ pc = "done"
    /\ processed.k = "Ok"
    /\ Len(processed.v.blob[1]) = 128
    /\ Len(ExpectedChunk(parsed.v.chunks[1])) = 128

Min(S) == CHOOSE m \in S : \A n \in S : m <= n

\* C6: when the encoding of one or more chunks is longer than the maximum,
\* assemble_scripts returns the error "chunk too large" with the lowest index
\* among those chunks, the length of that chunk's encoding, and the maximum,
\* 128.
C6_FirstOffendingChunk ==
    (pc = "done" /\ Oversized(parsed.v.chunks) # {}) =>
        LET first == Min(Oversized(parsed.v.chunks))
        IN  /\ processed.k = "Err"
            /\ processed.e.msg = "chunk too large"
            /\ processed.e.chunk = first
            /\ processed.e.size = Len(ExpectedChunk(parsed.v.chunks[first + 1]))
            /\ processed.e.max = 128

\* 129 scripts of one four-byte Msg each in chunk 0: the error names chunk 0
\* and size 516
C6_Witness ==
    /\ pc = "done"
    /\ Len(parsed.v.chunks[1]) = 129
    /\ \A s \in 1..129 : Len(EncodedBody(parsed.v.chunks[1][s].body)) = 4
    /\ processed.k = "Err"
    /\ processed.e.chunk = 0
    /\ processed.e.size = 516
    /\ processed.e.max = 128

(***************************************************************************)
(* Command offsets                                                         *)
(***************************************************************************)
\* the encoded length, terminator included, of every command of a chunk
CmdSizes(chunk) ==
    Cat([s \in 1..Len(chunk) |->
             [n \in 1..Len(chunk[s].body) |->
                  Len(Cmd_to_bytes(chunk[s].body[n])) + 1]],
        1, Len(chunk))

RECURSIVE SumTo(_, _)
SumTo(sizes, n) == IF n = 0 THEN 0 ELSE sizes[n] + SumTo(sizes, n - 1)

\* where each command of a chunk begins, counted from the chunk's first byte
RelativeOffsets(chunk) ==
    LET sizes == CmdSizes(chunk)
    IN  [n \in 1..Len(sizes) |-> SumTo(sizes, n - 1)]

NonEmptyChunks(chs) == {k \in 1..Len(chs) : chs[k] # <<>>}

RECURSIVE SumSizes(_, _)
SumSizes(chs, K) ==
    IF K = {} THEN 0
    ELSE LET k == CHOOSE x \in K : TRUE
         IN  Len(ExpectedChunk(chs[k])) + SumSizes(chs, K \ {k})

\* the first byte of chunk k in the concatenation of all chunk buffers
ChunkStart(chs, k) == SumSizes(chs, {j \in NonEmptyChunks(chs) : j < k})

AllRelativeOffsets(chs) ==
    Cat([k \in 1..Len(chs) |->
             IF chs[k] = <<>> THEN <<>> ELSE RelativeOffsets(chs[k])],
        1, Len(chs))

AllAbsoluteOffsets(chs) ==
    Cat([k \in 1..Len(chs) |->
             IF chs[k] = <<>> THEN <<>>
             ELSE LET rel == RelativeOffsets(chs[k])
                      start == ChunkStart(chs, k)
                  IN  [n \in 1..Len(rel) |-> (start + rel[n]) % U16]],
        1, Len(chs))

\* C7: when assemble_scripts returns Ok, its offset list has one entry per
\* top-level command, in grid order, and the entries are the commands' first
\* bytes either all counted from the start of the command's own chunk buffer
\* or all counted from the start of the concatenation of the chunk buffers.
C7_OffsetsOneScheme ==
    (pc = "done" /\ processed.k = "Ok") =>
        /\ Len(processed.v.offsets) = Len(AllRelativeOffsets(parsed.v.chunks))
        /\ \/ processed.v.offsets = AllRelativeOffsets(parsed.v.chunks)
           \/ processed.v.offsets = AllAbsoluteOffsets(parsed.v.chunks)

\* C8: when assemble_scripts returns Ok, the buffer at grid index k is the
\* concatenation, over the scripts of chunk k in the order they were put
\* there and over each script's commands in body order, of the command's
\* encoding followed by one zero byte.
C8_ChunkBytes ==
    (pc = "done" /\ processed.k = "Ok") =>
        /\ Len(processed.v.blob) = Len(parsed.v.chunks)
        /\ \A k \in DOMAIN parsed.v.chunks :
               processed.v.blob[k] = ExpectedChunk(parsed.v.chunks[k])

\* two scripts of one Msg each in chunk 0, text indices 0 and 1
C8_Witness ==
    /\ pc = "done"
    /\ processed.k = "Ok"
    /\ Len(scripts) = 2
    /\ Len(parsed.v.chunks[1]) = 2
    /\ parsed.v.chunks[1][1].body = <<[op |-> "Msg", text |-> [text |-> <<"a">>, index |-> 0]]>>
    /\ parsed.v.chunks[1][2].body = <<[op |-> "Msg", text |-> [text |-> <<"b">>, index |-> 1]]>>
    /\ processed.v.blob[1] = <<0, 0, 0, 0, 0, 1, 0, 0>>
    /\ processed.v.offsets = <<0, 4>>

\* C9: when assemble_scripts returns Ok, blob has as many buffers as there
\* are chunks holding at least one command; with every script in chunk 0 it
\* has exactly one.
C9_OneBufferPerNonEmptyChunk ==
    (pc = "done" /\ processed.k = "Ok") =>
        Len(processed.v.blob) = Cardinality(NonEmptyChunks(parsed.v.chunks))

C10_Step == Len(chunks') = Len(chunks)

\* C10: the chunk grid has CHUNK_COLS * CHUNK_ROWS = 32 * 64 = 2048 entries
\* from the start of parse_scripts, no step changes their number, and the
\* grid parse_scripts returns has that many entries, for the empty script
\* list too.
C10_ChunkCoverage ==
    /\ [](/\ TOTAL_CHUNKS = CHUNK_COLS * CHUNK_ROWS
          /\ CHUNK_COLS * CHUNK_ROWS = 2048
          /\ Len(chunks) = CHUNK_COLS * CHUNK_ROWS
          /\ parsed.k = "Ok" => Len(parsed.v.chunks) = CHUNK_COLS * CHUNK_ROWS)
    /\ [][C10_Step]_vars

\* parse_scripts returned for the empty script list: 2048 chunks, all empty
C10_Witness ==
    /\ pc = "parsed"
    /\ scripts = <<>>
    /\ parsed.k = "Ok"
    /\ Len(parsed.v.chunks) = 2048
    /\ \A k \in DOMAIN parsed.v.chunks : parsed.v.chunks[k] = <<>>

(***************************************************************************)
(* Chunk grouping (parse_scripts)                                          *)
(***************************************************************************)
\* The commands a script source parses to, by kind
OpsOf(src) ==
    Let(parse(Parser_new(src, Controller_new, loc_tags)).res.v, LAMBDA body :
        [c \in 1..Len(body) |-> body[c].op])

\* Where each script entry of es belongs: its tile (pixel coordinates
\* integer-divided by 16), the row-major chunk number
\* (ty div CHUNK_H) * CHUNK_COLS + (tx div CHUNK_W) of the tile, and the
\* kinds of its commands.
PlacesOf(es) ==
    [j \in 1..Len(es) |->
        Let(<<TruncDiv(es[j].x, 16), TruncDiv(es[j].y, 16)>>, LAMBDA t :
            [k |-> TruncDiv(t[2], CHUNK_H) * CHUNK_COLS + TruncDiv(t[1], CHUNK_W),
             x |-> t[1], y |-> t[2], ops |-> OpsOf(es[j].script)])]

\* What a chunk holds, script by script, in the form of PlacesOf
Held(k) ==
    [j \in 1..Len(chunks[k + 1]) |->
        [k |-> k, x |-> chunks[k + 1][j].x, y |-> chunks[k + 1][j].y,
         ops |-> [c \in 1..Len(chunks[k + 1][j].body) |->
                     chunks[k + 1][j].body[c].op]]]

\* The chunks hold the scripts of `places`, each once, in its own chunk and
\* in no other, in the order of `places`
ChunksHold(places) ==
    /\ \A j \in 1..Len(places) : places[j].k \in 0..(TOTAL_CHUNKS - 1)
    /\ \A k \in {places[j].k : j \in 1..Len(places)} \cap 0..(TOTAL_CHUNKS - 1) :
           Held(k) = SelectSeq(places, LAMBDA p : p.k = k)
    /\ \A k \in 0..(TOTAL_CHUNKS - 1) :
           chunks[k + 1] # <<>> => \E j \in 1..Len(places) : places[j].k = k

HasBody(place) == place.ops # <<>>

OpcodeOf ==
    [Msg |-> 0, TMsg |-> 1, Tp |-> 2, If |-> 3, SetFlag |-> 4, UnsetFlag |-> 5,
     ReadFlag |-> 6, End |-> 7]

\* An index as two bytes, low byte first
LowFirst(i) == <<i % 256, i \div 256>>

\* [0, x lo, x hi, y lo, y hi] or [1, idx lo, idx hi]
LocationLayout(loc) ==
    IF loc.l = "Cords"
    THEN <<0, loc.x % 256, loc.x \div 256, loc.y % 256, loc.y \div 256>>
    ELSE <<1>> \o LowFirst(loc.tag.index)

\* The payload fields of a command without sub-commands, in declaration order
PayloadLayout(c) ==
    CASE c.op = "Msg" -> LowFirst(c.text.index)
      [] c.op = "TMsg" -> LocationLayout(c.at) \o LowFirst(c.text.index)
      [] c.op = "Tp" -> LocationLayout(c.from) \o LocationLayout(c.to)
      [] c.op \in {"SetFlag", "UnsetFlag", "ReadFlag"} -> LowFirst(c.flag.index)
      [] c.op = "End" -> <<>>

\* C12: Cmd::to_bytes yields the opcode byte of the command's kind followed
\* by its payload fields in declaration order, every index as two bytes low
\* byte first, a coordinate location as [0, x lo, x hi, y lo, y hi], a named
\* location as [1, idx lo, idx hi]; Msg and the flag commands are 3 bytes,
\* End is the single byte 7.
C12_CmdLayout ==
    pc \in {"encoded", "assembled"} =>
        /\ ret.v[1] = OpcodeOf[cur_cmd.op]
        /\ cur_cmd.op # "If" => Tail(ret.v) = PayloadLayout(cur_cmd)
        /\ cur_cmd.op = "If" => SubSeq(ret.v, 3, 4) = LowFirst(cur_cmd.condition.flag.index)
        /\ cur_cmd.op \in {"Msg", "SetFlag", "UnsetFlag", "ReadFlag"} => Len(ret.v) = 3
        /\ cur_cmd.op = "End" => ret.v = <<7>>

\* a TMsg at the named location 258 with text 65535 is encoded
C12_Witness ==
    /\ pc = "encoded"
    /\ cur_cmd = [op |-> "TMsg",
              at |-> [l |-> "Tag", tag |-> [text |-> <<"a">>, index |-> 258]],
              text |-> [text |-> <<"a">>, index |-> 65535]]
    /\ ret.v = <<1, 1, 2, 1, 255, 255>>

LocationLength(loc) == IF loc.l = "Cords" THEN 5 ELSE 3

\* Length of a command's encoding: an If is 5 bytes plus its sub-commands
RECURSIVE EncodedLength(_)
EncodedLength(c) ==
    CASE c.op \in {"Msg", "SetFlag", "UnsetFlag", "ReadFlag"} -> 3
      [] c.op = "End" -> 1
      [] c.op = "TMsg" -> 1 + LocationLength(c.at) + 2
      [] c.op = "Tp" -> 1 + LocationLength(c.from) + LocationLength(c.to)
      [] c.op = "If" ->
           IF c.branches.b = "ThenElse"
           THEN 5 + EncodedLength(c.branches.then) + EncodedLength(c.branches.else)
           ELSE 5 + EncodedLength(c.branches.then)

\* The complete encodings of the sub-commands of an If, one after the other
SubCommandBytes(br) ==
    IF br.b = "ThenElse"
    THEN Cmd_to_bytes(br.then) \o Cmd_to_bytes(br.else)
    ELSE Cmd_to_bytes(br.then)

\* C13: an If encodes as opcode 3, one condition tag byte, the flag's index
\* in 2 bytes, one branch tag byte, and then nothing but the complete
\* encodings of its then-command and, if any, its else-command, at every
\* nesting depth: its length is 5 plus the lengths of its sub-commands.
\* The assembler appends one terminator and records one offset, for the
\* top-level command only.
C13_IfInline ==
    (pc \in {"encoded", "assembled"} /\ cur_cmd.op = "If") =>
        /\ ret.v[1] = 3
        /\ ret.v[2] \in {0, 1}
        /\ SubSeq(ret.v, 3, 4) = LowFirst(cur_cmd.condition.flag.index)
        /\ ret.v[5] \in {0, 1}
        /\ SubSeq(ret.v, 6, Len(ret.v)) = SubCommandBytes(cur_cmd.branches)
        /\ Len(ret.v) = EncodedLength(cur_cmd)
        /\ pc = "assembled" =>
               /\ processed.tmp = ret.v \o <<0>>
               /\ processed.offsets = <<0>>

\* an If whose then-command is an If whose then-command is an If with both
\* branches: 5 + 5 + 5 + 1 + 3 = 19 bytes, assembled to 20
C13_Witness ==
    /\ pc = "assembled"
    /\ cur_cmd.op = "If"
    /\ cur_cmd.branches.then.op = "If"
    /\ cur_cmd.branches.then.branches.then.op = "If"
    /\ cur_cmd.branches.then.branches.then.branches.b = "ThenElse"
    /\ cur_cmd.branches.b = "Then"
    /\ cur_cmd.branches.then.branches.b = "Then"
    /\ Len(ret.v) = 19
    /\ Len(processed.tmp) = 20
    /\ processed.offsets = <<0>>

(***************************************************************************)
(* Lexer: terminal state                                                   *)
(***************************************************************************)
RECURSIVE AfterBlanks(_)
AfterBlanks(chars) ==
    IF chars # <<>> /\ Head(chars) \in {" ", "\t", "\r"}
    THEN AfterBlanks(Tail(chars)) ELSE chars

\* the next token starts with the character c
StartsToken(lx, c) ==
    /\ ~lx.finished
    /\ AfterBlanks(lx.chars) # <<>>
    /\ Head(AfterBlanks(lx.chars)) \in c

YieldsEof(r) == r.k = "Some" /\ r.v.k = "Ok" /\ r.v.tok.t = "Eof"

YieldsNone(r) == r.k = "Some" /\ r.v.k = "None"

C14_Step ==
    /\ StartsToken(cur_lexer, {";"}) => (YieldsEof(ret') /\ cur_lexer'.finished)
    /\ YieldsEof(ret') => (~cur_lexer.finished /\ cur_lexer'.finished)
    /\ cur_lexer.finished => (YieldsNone(ret') /\ cur_lexer'.finished)

C16_StreamEnds == <>[]YieldsNone(ret)

(***************************************************************************)
(* Lexer: number tokens                                                    *)
(***************************************************************************)
RECURSIVE DigitRun(_)
DigitRun(chars) ==
    IF chars # <<>> /\ Head(chars) \in Digits
    THEN <<Head(chars)>> \o DigitRun(Tail(chars)) ELSE <<>>

\* the digit run is worth at most 65535: without its leading zeros it has
\* at most 5 digits and their value is at most 65535
FitsU16(run) ==
    Len(StripZeros(run)) <= 5 /\ DecimalValue(StripZeros(run)) <= 65535

C17_Step ==
    StartsToken(cur_lexer, Digits) =>
        LET rest == AfterBlanks(cur_lexer.chars)
            run == DigitRun(rest)
        IN  IF FitsU16(run)
            THEN /\ ret'.v = [k |-> "Ok",
                              tok |-> [t |-> "Number", n |-> DecimalValue(StripZeros(run))]]
                 /\ cur_lexer'.chars = SubSeq(rest, Len(run) + 1, Len(rest))
            ELSE ret'.v.k = "Err"

\* C17: a pull where a digit starts the token consumes the maximal run of
\* digits; it yields Number(value) if the value is at most 65535 and an
\* error value for every run worth more, however long.
C17_NumberToken == [][C17_Step]_vars

(***************************************************************************)
(* Lexer: @name and !name                                                  *)
(***************************************************************************)
YieldsReference(r) ==
    r.k = "Some" /\ r.v.k = "Ok" /\ r.v.tok.t \in {"At", "Bang"}

ValidIdentifier(name) ==
    /\ name # <<>>
    /\ name[1] \in Letters \cup {"_"}
    /\ \A i \in 2..Len(name) : name[i] \in Letters \cup Digits \cup {"_"}

\* a sigil starts the token and no letter or underscore follows it
BareSigil(lx) ==
    /\ StartsToken(lx, {"@", "!"})
    /\ LET after == Tail(AfterBlanks(lx.chars))
       IN  after = <<>> \/ Head(after) \notin Letters \cup {"_"}

C18_Step ==
    /\ YieldsReference(ret') => ValidIdentifier(ret'.v.tok.s)
    /\ BareSigil(cur_lexer) =>
           /\ ~YieldsReference(ret')
           /\ Len(AfterBlanks(cur_lexer.chars)) - Len(cur_lexer'.chars) <= 1

\* C18: a pull that yields an @name or !name token yields a name that is a
\* valid identifier; a pull at a sigil that no letter or underscore follows
\* yields no such token and consumes nothing behind the sigil, so it leaves
\* the script terminator in place.
C18_ReferenceNames == [][C18_Step]_vars

(***************************************************************************)
(* Lexer and Parser: the missing terminator                                *)
(***************************************************************************)
\* the source has a ';' outside a text literal { .. }
RECURSIVE HasTerminator(_, _)
HasTerminator(chars, inText) ==
    IF chars = <<>> THEN FALSE
    ELSE IF inText THEN HasTerminator(Tail(chars), Head(chars) # "}")
    ELSE IF Head(chars) = ";" THEN TRUE
    ELSE HasTerminator(Tail(chars), Head(chars) = "{")

IsMissingEnd(item) ==
    item.k = "Err" /\ item.e = [msg |-> "Missing end of script ;"]

\* the items a Lexer yields, pull after pull, up to the first None, panic
\* or error for the missing end of script
RECURSIVE LexItems(_)
LexItems(lx) ==
    Let(Lexer_next(lx), LAMBDA r :
        IF r.item.k \in {"None", "Panic"} \/ IsMissingEnd(r.item)
        THEN <<r.item>>
        ELSE <<r.item>> \o LexItems(r.lex))

\* C15: for a source without ';' outside a text literal, the items the
\* lexer yields contain the error for the missing end of script and no Eof
\* token, and Parser::parse returns an error.
C15_MissingTerminatorFails ==
    (ret.k = "Some" /\ ret.f = "parse"
        /\ ~HasTerminator(scripts[1].script, FALSE)) =>
        /\ ret.v.k = "Err"
        /\ Let(LexItems(Lexer_new(scripts[1].script)), LAMBDA items :
                   /\ \E i \in 1..Len(items) : IsMissingEnd(items[i])
                   /\ \A i \in 1..Len(items) :
                          ~(items[i].k = "Ok" /\ items[i].tok.t = "Eof"))

(***************************************************************************)
(* Parser: the closing keyword of an if                                    *)
(***************************************************************************)
\* the item a Lexer yields first for the characters suf
FirstItem(suf) == Lexer_next(Lexer_new(suf))

IsEndif(item) ==
    item.k = "Ok" /\ item.tok.t = "Ident" /\ item.tok.s = <<"e", "n", "d", "i", "f">>

IsOtherIdent(item) ==
    item.k = "Ok" /\ item.tok.t = "Ident" /\ item.tok.s # <<"e", "n", "d", "i", "f">>

\* parse_cmd has returned for the source pre \o suf
ParsedCmdOf(pre, suf) ==
    /\ pc = "parsed"
    /\ ret.f = "parse_cmd"
    /\ scripts[1].script = pre \o suf

\* parse_cmd returned an If of the branch kind b
ReturnedIf(b) ==
    /\ ret.v.k = "Ok"
    /\ ret.v.v.op = "If"
    /\ ret.v.v.branches.b = b

\* what the Parser has not consumed
Unconsumed(p) == <<p.lex.peeked.k, p.lex.iter.chars>>

\* C19: after the else-command of an if, parse_cmd returns the then/else
\* pair exactly when the next token is `endif`, which it has consumed, and
\* nothing behind it; for every other token - another identifier, a token
\* that is no identifier, Eof - and for a lexical error it returns an error.
C19_ElseClosedByEndif ==
    \A pre \in ElsePrefixes, suf \in Suffixes :
        ParsedCmdOf(pre, suf) =>
            Let(FirstItem(suf), LAMBDA first :
                IF IsEndif(first.item)
                THEN /\ ReturnedIf("ThenElse")
                     /\ Unconsumed(cur_parser) = <<"Empty", first.lex.chars>>
                ELSE ret.v.k = "Err")

\* "if f then setflag flag_a else unsetflag flag_b endif msg {a};": the
\* then/else pair is returned and " msg {a};" is left
C19_Witness ==
    /\ \E pre \in ElsePrefixes :
           ParsedCmdOf(pre, <<" ", "e", "n", "d", "i", "f", " ", "m", "s", "g", " ",
                             "{", "a", "}", ";">>)
    /\ ReturnedIf("ThenElse")
    /\ ret.v.v.branches.else.op = "UnsetFlag"
    /\ Unconsumed(cur_parser) = <<"Empty", <<" ", "m", "s", "g", " ", "{", "a", "}", ";">>>>

\* C20 as stated: after the then-command of an if without else-branch,
\* parse_cmd returns the then-only If whether or not `endif` follows, and
\* has consumed nothing behind the then-command.
C20_NoClosingKeyword ==
    \A pre \in ThenPrefixes, suf \in Suffixes :
        (ParsedCmdOf(pre, suf) /\ ~IsOtherIdent(FirstItem(suf).item)) =>
            /\ ReturnedIf("Then")
            /\ Unconsumed(cur_parser) = <<"Empty", suf>>

\* C20: after the then-command of an if, parse_cmd returns the then-only If
\* exactly when the next token is `endif`, which it has consumed, and
\* nothing behind it; when the next token is no identifier (Eof, a number,
\* a text, a reference) or a lexical error, it returns an error; any other
\* identifier starts an else-branch.
C20_ThenClosedByEndif ==
    \A pre \in ThenPrefixes, suf \in Suffixes :
        ParsedCmdOf(pre, suf) =>
            Let(FirstItem(suf), LAMBDA first :
                CASE IsEndif(first.item) ->
                       /\ ReturnedIf("Then")
                       /\ Unconsumed(cur_parser) = <<"Empty", first.lex.chars>>
                  [] IsOtherIdent(first.item) ->
                       ret.v.k = "Err" \/ ReturnedIf("ThenElse")
                  [] OTHER -> ret.v.k = "Err")

\* "if f then setflag flag_a endif msg {a};": the then-only If is returned,
\* `endif` is consumed and " msg {a};" is left
C20_Witness ==
    /\ \E pre \in ThenPrefixes :
           ParsedCmdOf(pre, <<" ", "e", "n", "d", "i", "f", " ", "m", "s", "g", " ",
                             "{", "a", "}", ";">>)
    /\ ReturnedIf("Then")
    /\ ret.v.v.branches.then.op = "SetFlag"
    /\ Unconsumed(cur_parser) = <<"Empty", <<" ", "m", "s", "g", " ", "{", "a", "}", ";">>>>

(***************************************************************************)
(* Parser: locations                                                       *)
(***************************************************************************)
\* the coordinate a location text stands for, <<>> if it stands for none
CoordinateOf(l) ==
    CASE l.k = "numbers" -> <<l.x, l.y>>
      [] l.k = "ref" /\ l.name \in DOMAIN loc_tags -> loc_tags[l.name]
      [] OTHER -> <<>>

Cords(c) == [l |-> "Cords", x |-> c[1], y |-> c[2]]

\* a call of parse_cmd or parse has returned for the source src
ReturnedFor(src) ==
    /\ pc = "parsed"
    /\ ret.k = "Some"
    /\ scripts[1].script = src

\* the one command cmd was returned by parse_cmd, or alone by parse
ReturnedCmd(c) ==
    \/ ret.f = "parse_cmd" /\ ret.v = [k |-> "Ok", v |-> c]
    \/ ret.f = "parse" /\ ret.v = [k |-> "Ok", v |-> <<c>>]

\* C21: tp and tmsg with locations that are two numbers n1 n2 or an @name
\* of the location table parse to the command with the coordinates (n1, n2)
\* and the table's coordinate of the name; with anything else in the place
\* of a location no command is returned, so every location of a returned
\* command is a coordinate.
C21_LocationsAreCoordinates ==
    /\ \A from \in LocationTexts, to \in LocationTexts :
           ReturnedFor(<<"t", "p">> \o from.src \o to.src \o <<";">>) =>
               IF CoordinateOf(from) # <<>> /\ CoordinateOf(to) # <<>>
               THEN ReturnedCmd([op |-> "Tp", from |-> Cords(CoordinateOf(from)),
                                 to |-> Cords(CoordinateOf(to))])
               ELSE ret.v.k = "Err"
    /\ \A at \in LocationTexts :
           ReturnedFor(<<"t", "m", "s", "g">> \o at.src \o <<" ", "{", "a", "}", ";">>) =>
               IF CoordinateOf(at) # <<>>
               THEN ReturnedCmd([op |-> "TMsg", at |-> Cords(CoordinateOf(at)),
                                 text |-> [text |-> <<"a">>, index |-> 0]])
               ELSE ret.v.k = "Err"

\* "tp 1 2 @loc1;" with loc1 at (1, 1): from = (1, 2), to = (1, 1)
C21_Witness ==
    /\ ReturnedFor(<<"t", "p", " ", "1", " ", "2", " ", "@", "l", "o", "c", "1", ";">>)
    /\ ret.f = "parse_cmd"
    /\ ret.v.k = "Ok"
    /\ ret.v.v.from = [l |-> "Cords", x |-> 1, y |-> 2]
    /\ ret.v.v.to = [l |-> "Cords", x |-> 1, y |-> 1]

IsMissing(l) == l.k = "ref" /\ l.name \notin DOMAIN loc_tags

LocationNotFound(name) == [k |-> "Err", e |-> [msg |-> "location not found!", arg |-> name]]

\* C22: when the first location of tp or tmsg that is not a coordinate is
\* an @name missing from the location table, parse_cmd and parse return
\* the error that names it: no command, no default coordinate.
C22_MissingLocationFails ==
    /\ \A from \in LocationTexts, to \in LocationTexts :
           ReturnedFor(<<"t", "p">> \o from.src \o to.src \o <<";">>) =>
               /\ IsMissing(from) => ret.v = LocationNotFound(from.name)
               /\ (CoordinateOf(from) # <<>> /\ IsMissing(to)) =>
                      ret.v = LocationNotFound(to.name)
    /\ \A at \in LocationTexts :
           ReturnedFor(<<"t", "m", "s", "g">> \o at.src \o <<" ", "{", "a", "}", ";">>) =>
               (IsMissing(at) => ret.v = LocationNotFound(at.name))

\* "tp 1 2 @nowhere;": the error names nowhere
C22_Witness ==
    /\ ReturnedFor(<<"t", "p", " ", "1", " ", "2", " ", "@", "n", "o", "w", "h", "e",
                     "r", "e", ";">>)
    /\ ret.f = "parse"
    /\ ret.v = LocationNotFound(<<"n", "o", "w", "h", "e", "r", "e">>)

(***************************************************************************)
(* Parser: setflag, unsetflag, readflag                                    *)
(***************************************************************************)
\* the call parsed the flag command behind the prefix pre: parse always,
\* parse_cmd when nothing precedes the command
ParsedFlagCmd(pre, op, arg) ==
    /\ ReturnedFor(pre.src \o op.src \o arg.src \o <<";">>)
    /\ ret.f = "parse" \/ pre.src = <<>>

\* the command returned last
LastCmd == IF ret.f = "parse" THEN ret.v.v[Len(ret.v.v)] ELSE ret.v.v

\* C23: a flag keyword followed by an identifier with the prefix flag_
\* gives its command with the index of the name in the flag table, where
\* the name is interned; followed by anything else it gives an error and
\* the flag table is as it was before the command.
C23_FlagCommands ==
    \A pre \in FlagPrefixes, op \in FlagOps, arg \in FlagArgs :
        ParsedFlagCmd(pre, op, arg) =>
            IF arg.k = "flag"
            THEN /\ ret.v.k = "Ok"
                 /\ LastCmd.op = op.op
                 /\ LastCmd.flag.text = arg.name
                 /\ LastCmd.flag.index =
                        IF arg.name \in DOMAIN pre.flags
                        THEN pre.flags[arg.name] ELSE pre.count
                 /\ cur_parser.controller.flags =
                        pre.flags @@ (arg.name :> pre.count)
            ELSE /\ ret.v.k = "Err"
                 /\ cur_parser.controller.flags = pre.flags
                 /\ cur_parser.controller.flag_count = pre.count

\* "setflag flag_z readflag flag_a;": ReadFlag of index 1 is returned last
\* and the flag table is {flag_z: 0, flag_a: 1}
C23_Witness ==
    /\ \E pre \in FlagPrefixes, op \in FlagOps, arg \in FlagArgs :
           /\ ParsedFlagCmd(pre, op, arg)
           /\ pre.count = 1
           /\ op.op = "ReadFlag"
           /\ arg.k = "flag" /\ arg.name = <<"f", "l", "a", "g", "_", "a">>
    /\ Len(ret.v.v) = 2
    /\ ret.v.v[2].flag.index = 1
    /\ DOMAIN cur_parser.controller.flags =
           {<<"f", "l", "a", "g", "_", "z">>, <<"f", "l", "a", "g", "_", "a">>}

(***************************************************************************)
(* parse_scripts: the first failing script                                 *)
(***************************************************************************)
\* The entries whose source does not parse, and what the parser says:
\* 6 is "tp @nowhere 1 2;", 7 is "msg {a}" without its ';'
FailsToParse(entry) == entry.id \in {6, 7}

FailureOf(entry) ==
    IF entry.id = 6
    THEN [msg |-> "location not found!", arg |-> <<"n", "o", "w", "h", "e", "r", "e">>]
    ELSE [msg |-> "parse:", arg |-> [msg |-> "Missing end of script ;"]]

\* the position in the list of the first script that does not parse
FirstFailing ==
    {i \in 1..Len(scripts) :
        /\ FailsToParse(scripts[i])
        /\ \A j \in 1..(i - 1) : ~FailsToParse(scripts[j])}

\* C24: parse_scripts returns an error exactly for a list with a script
\* that does not parse; the error is the id of the first such script with
\* the parser's description and nothing else, and the loop has gone
\* through the scripts before it only.
C24_FirstFailureReturned ==
    /\ parsed.k = "Err" =>
           \E i \in FirstFailing :
               /\ parsed = Err([msg |-> "id failed", id |-> scripts[i].id,
                                e |-> FailureOf(scripts[i])])
               /\ si = i - 1
    /\ parsed.k = "Ok" => FirstFailing = {}

\* two scripts that both fail, with different ids: the error is the first's
C24_Witness ==
    /\ pc = "parsed"
    /\ Len(scripts) = 2
    /\ FailsToParse(scripts[1]) /\ FailsToParse(scripts[2])
    /\ scripts[1].id # scripts[2].id
    /\ parsed.k = "Err" /\ parsed.e.id = scripts[1].id
    /\ si = 0

(***************************************************************************)
(* processor::run: what the caller gets                                    *)
(***************************************************************************)
\* C25: an error of parse_scripts is returned by run as an error value,
\* as the chunk overflow found by assemble_scripts is; run does not abort.
C25_ErrorsAreReturned ==
    /\ parsed.k = "Err" => pc # "panic" /\ processed.k \in {"None", "Err"}
    /\ processed.k # "Panic"

(***************************************************************************)
(* parse_scripts: the flag table and the tag table                         *)
(***************************************************************************)
FLAG_X == <<"f", "l", "a", "g", "_", "X">>
FLAG_Y == <<"f", "l", "a", "g", "_", "Y">>
FLAG_Z == <<"f", "l", "a", "g", "_", "Z">>

\* The names an entry's source uses as flags (in conditions, plain or
\* negated, and after setflag, unsetflag, readflag) and as @name locations
FlagsOf(entry) ==
    CASE entry.id = 5 -> {FLAG_X, FLAG_Y, FLAG_Z}
      [] entry.id \in {8, 9, 10} -> {FLAG_X}
      [] entry.id = 14 -> {FLAG_Z}
      [] OTHER -> {}

TagsOf(entry) ==
    CASE entry.id = 4 -> {LOC1}
      [] entry.id = 14 -> {LOC2}
      [] OTHER -> {}

\* C26: the flag table returned by parse_scripts holds exactly the flag
\* names of the scripts and the tag table exactly their @names.
C26_TablesHoldReferencedNames ==
    (pc \in {"parsed", "done"} /\ parsed.k = "Ok") =>
        /\ DOMAIN parsed.v.flags =
               UNION {FlagsOf(scripts[i]) : i \in 1..Len(scripts)}
        /\ DOMAIN parsed.v.tags =
               UNION {TagsOf(scripts[i]) : i \in 1..Len(scripts)}

\* the script of the code's test next to one with a negated condition and a
\* reference: flags X, Y, Z and tag loc2
C26_Witness ==
    /\ pc = "parsed" /\ parsed.k = "Ok"
    /\ Len(scripts) = 2
    /\ scripts[1].id = 5 /\ scripts[2].id = 14
    /\ DOMAIN parsed.v.flags = {FLAG_X, FLAG_Y, FLAG_Z}
    /\ DOMAIN parsed.v.tags = {LOC2}

(***************************************************************************)
(* Parser: totality                                                        *)
(***************************************************************************)
\* a run of eleven digits 9, which the lexer cannot turn into a token
HasHugeNumber(src) ==
    \E i \in 1..(Len(src) - 10) : \A j \in i..(i + 10) : src[j] = "9"

\* What a call returns only after pulling from a finished lexer
EndOfStreamErrors ==
    {Err([msg |-> "unexpected end of script"]),
     Err([msg |-> "expected flag after command"])}

\* C27: parse and parse_cmd return a command list (a command) or an error
\* for every source the lexer turns into tokens; no unwrap() of a pull
\* fails and no pull finds the lexer finished; a command cut short by the
\* end-of-script token gives an error, with the lexer finished.
C27_ParserTotal ==
    (pc \in {"parsed", "panic"} /\ ret.k = "Some") =>
        /\ ret.v # UnwrapNone
        /\ ret.v \notin EndOfStreamErrors
        /\ ret.v.k \notin {"Ok", "Err"} => HasHugeNumber(scripts[1].script)
        /\ (scripts[1].script \in TruncatedSources /\ ret.f = "parse") =>
               ret.v.k = "Err" /\ cur_parser.lex.iter.finished
        /\ (scripts[1].script \in CompleteSources /\ ret.f = "parse") =>
               ret.v.k = "Ok" /\ cur_parser.lex.iter.finished

\* "tmsg 1 2;": parse_text has pulled the end-of-script token and parse
\* has returned its error
C27_Witness ==
    /\ pc = "parsed"
    /\ ret.k = "Some" /\ ret.f = "parse"
    /\ scripts[1].script = <<"t", "m", "s", "g", " ", "1", " ", "2", ";">>
    /\ ret.v = Err([msg |-> "invalid token after tp"])
    /\ cur_parser.lex.iter.finished

(***************************************************************************)
(* parse_scripts: a script is held by the chunk that contains its tile     *)
(***************************************************************************)
\* the tile (x, y) lies in the world and in the rectangle of chunk i
TileInChunk(i, x, y) ==
    /\ 0 <= x /\ x < MAP_W
    /\ 0 <= y /\ y < MAP_H
    /\ i \div CHUNK_COLS = y \div CHUNK_H
    /\ i % CHUNK_COLS = x \div CHUNK_W

\* C28: every script held by chunk i has its tile in the rectangle of
\* chunk i, and parse_scripts does not index outside the grid.
C28_ScriptsInsideTheirChunk ==
    /\ \A k \in DOMAIN chunks : \A j \in DOMAIN chunks[k] :
           TileInChunk(k - 1, chunks[k][j].x, chunks[k][j].y)
    /\ parsed.k # "Panic"

(***************************************************************************)
(* Encoding of commands: unique decodability                               *)
(***************************************************************************)
\* A location without the name behind its index
NamelessLocation(loc) ==
    IF loc.l = "Cords" THEN loc ELSE [l |-> "Tag", tag |-> loc.tag.index]

\* the 16-bit number at bytes i, i + 1 of b, low byte first
WordAt(b, i) == b[i] + 256 * b[i + 1]

\* A reader of the bytes b from position i on: what it reads and the
\* position behind it.  It looks at no byte before i and at none behind
\* what it reads.
ReadLocation(b, i) ==
    IF b[i] = 0
    THEN [v |-> [l |-> "Cords", x |-> WordAt(b, i + 1), y |-> WordAt(b, i + 3)],
          next |-> i + 5]
    ELSE [v |-> [l |-> "Tag", tag |-> WordAt(b, i + 1)], next |-> i + 3]

RECURSIVE ReadCmd(_, _)
ReadCmd(b, i) ==
    CASE b[i] = 0 -> [v |-> [op |-> "Msg", text |-> WordAt(b, i + 1)], next |-> i + 3]
      [] b[i] = 1 ->
           Let(ReadLocation(b, i + 1), LAMBDA at :
               [v |-> [op |-> "TMsg", at |-> at.v, text |-> WordAt(b, at.next)],
                next |-> at.next + 2])
      [] b[i] = 2 ->
           Let(ReadLocation(b, i + 1), LAMBDA from :
               Let(ReadLocation(b, from.next), LAMBDA to :
                   [v |-> [op |-> "Tp", from |-> from.v, to |-> to.v],
                    next |-> to.next]))
      [] b[i] = 3 ->
           Let(ReadCmd(b, i + 5), LAMBDA then :
               IF b[i + 4] = 1
               THEN [v |-> [op |-> "If",
                            c |-> IF b[i + 1] = 0 THEN "FlagSet" ELSE "FlagClear",
                            flag |-> WordAt(b, i + 2), subs |-> <<then.v>>],
                     next |-> then.next]
               ELSE Let(ReadCmd(b, then.next), LAMBDA else :
                        [v |-> [op |-> "If",
                                c |-> IF b[i + 1] = 0 THEN "FlagSet" ELSE "FlagClear",
                                flag |-> WordAt(b, i + 2),
                                subs |-> <<then.v, else.v>>],
                         next |-> else.next]))
      [] b[i] \in {4, 5, 6} ->
           [v |-> [op |-> <<"SetFlag", "UnsetFlag", "ReadFlag">>[b[i] - 3],
                   flag |-> WordAt(b, i + 1)],
            next |-> i + 3]
      [] OTHER -> [v |-> [op |-> "End"], next |-> i + 1]

\* the command c as the reader gives it: without the names behind its
\* indices
RECURSIVE AsRead(_)
AsRead(c) ==
    CASE c.op = "TMsg" ->
           [op |-> "TMsg", at |-> NamelessLocation(c.at), text |-> c.text.index]
      [] c.op = "Tp" ->
           [op |-> "Tp", from |-> NamelessLocation(c.from),
            to |-> NamelessLocation(c.to)]
      [] c.op = "If" ->
           [op |-> "If", c |-> c.condition.c, flag |-> c.condition.flag.index,
            subs |-> IF c.branches.b = "Then"
                     THEN <<AsRead(c.branches.then)>>
                     ELSE <<AsRead(c.branches.then), AsRead(c.branches.else)>>]
      [] c.op = "Msg" -> [op |-> "Msg", text |-> c.text.index]
      [] c.op \in {"SetFlag", "UnsetFlag", "ReadFlag"} ->
           [op |-> c.op, flag |-> c.flag.index]
      [] c.op = "End" -> [op |-> "End"]

\* the encodings of all commands of EncCmds
EncodedCmds == {Cmd_to_bytes(c) : c \in EncCmds}

IsPrefixOf(a, b) == Len(a) <= Len(b) /\ SubSeq(b, 1, Len(a)) = a

\* C29: the commands of EncCmds, which differ in structure, an index or a
\* coordinate, have different encodings; the encoding of a command is a
\* prefix of no other command's encoding; a reader that walks the bytes
\* gets the command back, without its names, and stops at its last byte
\* whatever follows.
C29_UniquelyDecodable ==
    /\ Cardinality(EncodedCmds) = Cardinality(EncCmds)
    /\ pc \in {"encoded", "assembled"} =>
           /\ \A b \in EncodedCmds : IsPrefixOf(ret.v, b) => b = ret.v
           /\ \A rest \in {<<>>, <<0>>, <<7, 3>>} :
                  ReadCmd(ret.v \o rest, 1) =
                      [v |-> AsRead(cur_cmd), next |-> Len(ret.v) + 1]

\* an if with a then-branch only, whose bytes but for the variant tag of
\* the branches begin those of an if with the same then-branch and an else
C29_Witness ==
    /\ pc = "encoded"
    /\ cur_cmd.op = "If" /\ cur_cmd.branches.b = "Then"
    /\ ret.v = <<3, 0, 2, 1, 1, 7>>
    /\ <<3, 0, 2, 1, 0, 7, 7>> \in EncodedCmds

(***************************************************************************)
(* Parser: the keywords of an if                                           *)
(***************************************************************************)
\* C30: an if whose then-branch is introduced by 'then' and whose
\* else-branch by 'else' parses; with another identifier in the place of
\* either keyword the parser returns an error.
C30_BranchKeywords ==
    (pc = "parsed" /\ ret.k = "Some") =>
        /\ scripts[1].script \in KeyedSources => ret.v.k = "Ok"
        /\ scripts[1].script \in MiskeyedSources => ret.v.k = "Err"

====
